---- MODULE Spec2Model ----
(***************************************************************************)
(* Model of the collection routing and scheduling engine of                *)
(* frontend/src/utils/routeOptimizer.js: the travel graph (adjacency map,  *)
(* dijkstra, getTravelTime), the trip builder (buildSingleRoute and its    *)
(* helpers), the fleet scheduler (optimizeRoutes), the daily schedule and  *)
(* the overflow verifier (verifyNoOverflows).                              *)
(*                                                                         *)
(* JavaScript numbers are modelled as exact rationals <<n, d>> in lowest   *)
(* terms with d > 0, plus the three special values Infinity, -Infinity and *)
(* NaN.  Rounding of IEEE doubles is not modelled.                         *)
(***************************************************************************)
EXTENDS Integers, Sequences, FiniteSets, TLC

VARIABLES
    network,            \* network.edges: sequence of [from, to, travel_time_minutes]
    cauldrons,          \* input: sequence of [id, maxVolume, fillRate]
    levels,             \* input: sequence of [cauldron_id, level], the latest readings
    couriers,           \* input: sequence of [max_carrying_capacity]
    allLevels,          \* input: historical readings [cauldron_id, timestamp, level]
    pc,                 \* position in optimizeRoutes
    adjacency,          \* the adjacency map built once per run
    drainRates,         \* result of calculateDrainRatesFromHistory
    cauldronStates,     \* the cauldron objects; shared by every pool and the verifier
    reachableCauldrons, \* ids of the cauldrons reachable from the market, by urgency
    maxCycleTime,
    unvisited,          \* the pool: ids of the cauldrons still needing service
    visitCount,
    courierCapacity,
    routes,             \* sequence of [witchId, capacity, trips]
    witchIndex,
    totalTrips,
    trip,               \* the locals of the running buildSingleRoute call
    verification,       \* what verifyNoOverflows computed and returned
    result,             \* the value optimizeRoutes returns
    travelTimes,        \* graph queries: getTravelTime for every pair of nodes, or null
    shortestPaths       \* graph queries: dijkstra for every pair of nodes, or null

inputVars == <<network, cauldrons, levels, couriers, allLevels>>
runVars == <<pc, adjacency, drainRates, cauldronStates, reachableCauldrons, maxCycleTime,
             unvisited, visitCount, courierCapacity, routes, witchIndex, totalTrips,
             trip, verification, result>>
queryVars == <<travelTimes, shortestPaths>>
vars == <<inputVars, runVars, queryVars>>

-----------------------------------------------------------------------------
(* JavaScript values *)

null == <<>>
undefined == <<0, -1>>
Infinity == <<1, 0>>
NegInfinity == <<-1, 0>>
NaN == <<0, 0>>

Num(n) == <<n, 1>>
IsFinite(x) == x[2] > 0
Abs(n) == IF n < 0 THEN -n ELSE n
Sign(x) == IF x[1] > 0 THEN 1 ELSE IF x[1] < 0 THEN -1 ELSE 0

RECURSIVE GCD(_, _)
GCD(a, b) == IF b = 0 THEN a ELSE GCD(b, a % b)

\* the number n/d with d # 0, in lowest terms
Norm(n, d) ==
    LET g == GCD(Abs(n), Abs(d))
        s == IF d < 0 THEN -1 ELSE 1
    IN  <<(s * n) \div g, (s * d) \div g>>

Neg(x) == <<-x[1], x[2]>>

\* x + y
Add(x, y) ==
    IF x = NaN \/ y = NaN THEN NaN
    ELSE IF ~IsFinite(x) THEN (IF ~IsFinite(y) /\ y # x THEN NaN ELSE x)
    ELSE IF ~IsFinite(y) THEN y
    ELSE LET g == GCD(x[2], y[2])
         IN  Norm(x[1] * (y[2] \div g) + y[1] * (x[2] \div g), (x[2] \div g) * y[2])

\* x - y
Sub(x, y) == Add(x, Neg(y))

\* x * y
Mul(x, y) ==
    IF x = NaN \/ y = NaN THEN NaN
    ELSE IF ~IsFinite(x) \/ ~IsFinite(y)
         THEN (IF Sign(x) * Sign(y) = 0 THEN NaN
               ELSE IF Sign(x) * Sign(y) > 0 THEN Infinity ELSE NegInfinity)
    ELSE LET g1 == GCD(Abs(x[1]), y[2])
             g2 == GCD(Abs(y[1]), x[2])
             h1 == IF g1 = 0 THEN 1 ELSE g1
             h2 == IF g2 = 0 THEN 1 ELSE g2
         IN  Norm((x[1] \div h1) * (y[1] \div h2), (x[2] \div h2) * (y[2] \div h1))

\* x / y, with JavaScript's results for division by zero
Div(x, y) ==
    IF x = NaN \/ y = NaN THEN NaN
    ELSE IF ~IsFinite(y) THEN (IF IsFinite(x) THEN Num(0) ELSE NaN)
    ELSE IF y[1] = 0
         THEN (IF Sign(x) = 0 THEN NaN
               ELSE IF Sign(x) > 0 THEN Infinity ELSE NegInfinity)
    ELSE IF ~IsFinite(x)
         THEN (IF Sign(x) * Sign(y) > 0 THEN Infinity ELSE NegInfinity)
    ELSE Mul(x, IF y[1] < 0 THEN <<-y[2], -y[1]>> ELSE <<y[2], y[1]>>)

\* x < y (false when either side is NaN)
Lt(x, y) ==
    IF x = NaN \/ y = NaN THEN FALSE
    ELSE IF x = y THEN FALSE
    ELSE IF x = NegInfinity \/ y = Infinity THEN TRUE
    ELSE IF x = Infinity \/ y = NegInfinity THEN FALSE
    ELSE LET g == GCD(x[2], y[2])
         IN  x[1] * (y[2] \div g) < y[1] * (x[2] \div g)

Gt(x, y) == Lt(y, x)
Le(x, y) == x # NaN /\ y # NaN /\ (x = y \/ Lt(x, y))
Ge(x, y) == Le(y, x)

\* Math.max and Math.min of two numbers
Max2(x, y) == IF x = NaN \/ y = NaN THEN NaN ELSE IF Lt(x, y) THEN y ELSE x
Min2(x, y) == IF x = NaN \/ y = NaN THEN NaN ELSE IF Lt(y, x) THEN y ELSE x

-----------------------------------------------------------------------------
(* Travel graph *)

\* Map.has / Map.get / Map.set on an insertion-ordered map [keys, get]
MapHas(m, k) == \E i \in 1..Len(m.keys) : m.keys[i] = k
MapGet(m, k) == IF MapHas(m, k) THEN m.get[k] ELSE undefined
MapSet(m, k, v) ==
    IF MapHas(m, k)
    THEN [m EXCEPT !.get[k] = v]
    ELSE [keys |-> Append(m.keys, k), get |-> (k :> v) @@ m.get]
EmptyMap == [keys |-> <<>>, get |-> <<>>]

\* Array.prototype.find and findIndex: the first of the positions that match
\* (hits), 0 if none
FindIndex(hits) ==
    IF hits = {} THEN 0 ELSE CHOOSE i \in hits : \A j \in hits : i <= j

\* parseFloat of a travel time that is already a whole number of minutes
parseFloat(cost) == Num(cost)

\* if (!adjacency.has(n)) adjacency.set(n, [])
WithNode(adj, n) == IF MapHas(adj, n) THEN adj ELSE MapSet(adj, n, <<>>)

\* adjacency.get(n).push({ node: m, cost: parseFloat(cost) })
WithNeighbor(adj, n, m, cost) ==
    MapSet(adj, n, Append(MapGet(adj, n), [node |-> m, cost |-> parseFloat(cost)]))

\* the middle of a range of positions
Mid(first, last) == (first + last) \div 2

\* one pass of the forEach of lines 168-184 without the second push of line 183
OneWay(adj0, edge) ==
    WithNeighbor(WithNode(WithNode(adj0, edge.from), edge.to),
                 edge.from, edge.to, edge.travel_time_minutes)

\* one pass of the forEach of lines 168-184
BothWays(adj0, edge) ==
    WithNeighbor(WithNeighbor(WithNode(WithNode(adj0, edge.from), edge.to),
                              edge.from, edge.to, edge.travel_time_minutes),
                 edge.to, edge.from, edge.travel_time_minutes)

\* the passes for the edges first..last, in order; the map after the first
\* half of the range is bound as a value (half) before the second half is taken
RECURSIVE EdgesOneWay(_, _, _, _)
EdgesOneWay(edges, first, last, adj0) ==
    IF first > last THEN adj0
    ELSE IF first = last THEN OneWay(adj0, edges[first])
    ELSE CHOOSE built \in
             {EdgesOneWay(edges, Mid(first, last) + 1, last, half) :
                  half \in {EdgesOneWay(edges, first, Mid(first, last), adj0)}} : TRUE

RECURSIVE EdgesBothWays(_, _, _, _)
EdgesBothWays(edges, first, last, adj0) ==
    IF first > last THEN adj0
    ELSE IF first = last THEN BothWays(adj0, edges[first])
    ELSE CHOOSE built \in
             {EdgesBothWays(edges, Mid(first, last) + 1, last, half) :
                  half \in {EdgesBothWays(edges, first, Mid(first, last), adj0)}} : TRUE

\* buildAdjacencyMap without the second push of line 183: one-way edges
buildOneWayFrom(edges, idx, adj0) == EdgesOneWay(edges, idx, Len(edges), adj0)

\* the forEach of lines 168-184 from edge idx on
buildAdjacencyFrom(edges, idx, adj0) == EdgesBothWays(edges, idx, Len(edges), adj0)

buildAdjacencyMap(net) == buildAdjacencyFrom(net, 1, EmptyMap)

\* position in unvisitedNodes of the first node with a finite distance, least or not
FirstReached(distances, unvisitedNodes) ==
    LET finite == {i \in 1..Len(unvisitedNodes) : MapGet(distances, unvisitedNodes[i]) # Infinity}
    IN  IF finite = {} THEN 0 ELSE CHOOSE i \in finite : \A j \in finite : i <= j

\* position in unvisitedNodes of the first node with the least finite distance,
\* 0 when every unvisitedNodes node is at distance Infinity (currentNode stays null)
MinUnvisited(distances, unvisitedNodes) ==
    LET finite == {i \in 1..Len(unvisitedNodes) : MapGet(distances, unvisitedNodes[i]) # Infinity}
    IN  IF finite = {} THEN 0
        ELSE CHOOSE i \in finite :
                 \A j \in finite :
                     /\ ~Lt(MapGet(distances, unvisitedNodes[j]), MapGet(distances, unvisitedNodes[i]))
                     /\ (MapGet(distances, unvisitedNodes[j]) = MapGet(distances, unvisitedNodes[i]) => i <= j)

RemoveNode(seq, n) == SelectSeq(seq, LAMBDA x : x # n)
InSeq(seq, n) == \E i \in 1..Len(seq) : seq[i] = n

\* one pass of the "Update neighbors" loop of dijkstra
Relaxed(entry, currentNode, unvisitedNodes, st) ==
    LET neighbor == entry.node
        cost == entry.cost
        altDistance == Add(MapGet(st.distances, currentNode), cost)
    IN  IF ~InSeq(unvisitedNodes, neighbor) THEN st
        ELSE IF Lt(altDistance, MapGet(st.distances, neighbor))
        THEN [distances |-> MapSet(st.distances, neighbor, altDistance),
              previous |-> MapSet(st.previous, neighbor, currentNode)]
        ELSE st

\* the passes of the "Update neighbors" loop for the entries first..last
RECURSIVE RelaxRange(_, _, _, _, _, _)
RelaxRange(neighbors, first, last, currentNode, unvisitedNodes, st) ==
    IF first > last THEN st
    ELSE IF first = last THEN Relaxed(neighbors[first], currentNode, unvisitedNodes, st)
    ELSE CHOOSE out \in
             {RelaxRange(neighbors, Mid(first, last) + 1, last, currentNode,
                         unvisitedNodes, half) :
                  half \in {RelaxRange(neighbors, first, Mid(first, last), currentNode,
                                       unvisitedNodes, st)}} : TRUE

\* the "Update neighbors" loop of dijkstra
UpdateNeighbors(neighbors, idx, currentNode, unvisitedNodes, st) ==
    RelaxRange(neighbors, idx, Len(neighbors), currentNode, unvisitedNodes, st)

\* one pass of the main loop of dijkstra for the node at pos: the nodes left
\* and the maps after its neighbors are updated
VisitNode(adj, unvisitedNodes, pos, st) ==
    LET currentNode == unvisitedNodes[pos]
        rest == RemoveNode(unvisitedNodes, currentNode)
        neighbors == IF MapHas(adj, currentNode)
                     THEN MapGet(adj, currentNode) ELSE <<>>
    IN  [rest |-> rest, st |-> UpdateNeighbors(neighbors, 1, currentNode, rest, st)]

\* one pass of the main loop of dijkstra; left is set once the loop is left
LoopPass(adj, endNode, w) ==
    IF w.left \/ Len(w.unvisitedNodes) = 0 THEN [w EXCEPT !.left = TRUE]
    ELSE LET pos == MinUnvisited(w.st.distances, w.unvisitedNodes)
         IN  IF pos = 0 THEN [w EXCEPT !.left = TRUE]
             ELSE IF w.unvisitedNodes[pos] = endNode THEN [w EXCEPT !.left = TRUE]
             ELSE LET step == VisitNode(adj, w.unvisitedNodes, pos, w.st)
                  IN  [unvisitedNodes |-> step.rest, st |-> step.st, left |-> FALSE]

\* n passes of the main loop, the first half of them bound as a value
RECURSIVE LoopPasses(_, _, _, _)
LoopPasses(adj, endNode, n, w) ==
    IF n <= 1 THEN LoopPass(adj, endNode, w)
    ELSE CHOOSE out \in
             {LoopPasses(adj, endNode, n - n \div 2, half) :
                  half \in {LoopPasses(adj, endNode, n \div 2, w)}} : TRUE

\* the main loop of dijkstra: every pass but the last takes a node out of
\* unvisitedNodes, so the loop is left within Len(unvisitedNodes) + 1 passes
dijkstraLoop(adj, endNode, unvisitedNodes, st) ==
    LoopPasses(adj, endNode, Len(unvisitedNodes) + 1,
               [unvisitedNodes |-> unvisitedNodes, st |-> st, left |-> FALSE]).st

\* the "Reconstruct path" loop of dijkstra
RECURSIVE ReconstructPath(_, _, _)
ReconstructPath(previous, current, path) ==
    IF MapHas(previous, current)
    THEN ReconstructPath(previous, MapGet(previous, current), <<current>> \o path)
    ELSE <<current>> \o path

\* distances.set(node, Infinity) for every key of the adjacency map
InitDistances(keys) ==
    [keys |-> keys, get |-> [k \in {keys[i] : i \in 1..Len(keys)} |-> Infinity]]

dijkstra(adj, startNode, endNode) ==
    LET distances0 == MapSet(InitDistances(adj.keys), startNode, Num(0))
        final == dijkstraLoop(adj, endNode, adj.keys,
                     [distances |-> distances0, previous |-> EmptyMap])
        path == ReconstructPath(final.previous, endNode, <<>>)
    IN  [distance |-> MapGet(final.distances, endNode),
         path |-> IF Len(path) > 1 THEN path ELSE null]

\* neighbors.find(n => n.node === toId): its position, 0 when there is none
DirectConnection(neighbors, toId) ==
    FindIndex({pos \in 1..Len(neighbors) : neighbors[pos].node = toId})

\* lines 267-269
ViaDijkstra(res) == IF res.distance = Infinity THEN null ELSE res.distance

\* lines 260-269
TravelTimeFrom(adj, neighbors, fromId, toId) ==
    IF DirectConnection(neighbors, toId) # 0
    THEN neighbors[DirectConnection(neighbors, toId)].cost
    ELSE ViaDijkstra(dijkstra(adj, fromId, toId))

\* lines 256-269 once the adjacency map is built
TravelTimeIn(adj, fromId, toId) ==
    TravelTimeFrom(adj, IF MapHas(adj, fromId) THEN MapGet(adj, fromId) ELSE <<>>,
                   fromId, toId)

getTravelTime(fromId, toId, net) ==
    IF fromId = toId THEN Num(0) ELSE TravelTimeIn(buildAdjacencyMap(net), fromId, toId)

-----------------------------------------------------------------------------
(* Reservoir state and the per-stop calculations *)

\* JavaScript truthiness of a number, as used by the a || b fallbacks
Truthy(x) == x # NaN /\ x # Num(0)
OrElse(x, y) == IF Truthy(x) THEN x ELSE y

DefaultDrainRate == 50
MaxReadingGap == 240

\* readings of one cauldron, in input order: filter and map of lines 37-46
RECURSIVE ReadingsOf(_, _, _)
ReadingsOf(readings, idx, cauldronId) ==
    IF idx > Len(readings) THEN <<>>
    ELSE LET l == readings[idx]
             rest == ReadingsOf(readings, idx + 1, cauldronId)
         IN  IF l.cauldron_id = cauldronId
             THEN <<[timestamp |-> l.timestamp, level |-> l.level]>> \o rest
             ELSE rest

\* Array.prototype.sort with comparator (a, b) => a.key - b.key (stable):
\* each element is inserted after the elements whose key is not greater
\* sorted with e put after the entries whose key is not greater than its own
InsertByKey(e, sorted) ==
    LET k == Cardinality({i \in 1..Len(sorted) : ~Lt(e.key, sorted[i].key)})
    IN  SubSeq(sorted, 1, k) \o <<e>> \o SubSeq(sorted, k + 1, Len(sorted))

\* the entries first..last of seq put into sorted one after the other
RECURSIVE InsertRange(_, _, _, _)
InsertRange(seq, first, last, sorted) ==
    IF first > last THEN sorted
    ELSE IF first = last THEN InsertByKey(seq[first], sorted)
    ELSE CHOOSE out \in
             {InsertRange(seq, Mid(first, last) + 1, last, half) :
                  half \in {InsertRange(seq, first, Mid(first, last), sorted)}} : TRUE

\* the entries from idx on are put into sorted in the order of seq
SortByKey(seq, idx, sorted) ==
    CHOOSE out \in {InsertRange(entries, idx, Len(entries), sorted) : entries \in {seq}} : TRUE

\* one pass of the drain events loop, lines 68-128: the actualDrainRate it pushes
DrainEvent(timeDiffMinutes, levelChange, actualDrainRate) ==
    IF Le(timeDiffMinutes, Num(0)) \/ Gt(timeDiffMinutes, Num(MaxReadingGap)) THEN <<>>
    ELSE IF /\ Lt(levelChange, Num(0))
            /\ Gt(actualDrainRate, <<1, 100>>) /\ Lt(actualDrainRate, Num(500))
    THEN <<actualDrainRate>>
    ELSE <<>>

\* fillRate - observedRate of line 92
ActualDrainRate(timeDiffMinutes, levelChange, fillRate) ==
    Sub(fillRate, Div(levelChange, timeDiffMinutes))

DrainEventOf(timeDiffMinutes, levelChange, fillRate) ==
    DrainEvent(timeDiffMinutes, levelChange,
               ActualDrainRate(timeDiffMinutes, levelChange, fillRate))

\* the accepted actualDrainRate values from reading i on
RECURSIVE DrainEvents(_, _, _)
DrainEvents(cauldronLevels, i, fillRate) ==
    IF i > Len(cauldronLevels) THEN <<>>
    ELSE DrainEventOf(Div(Num(cauldronLevels[i].timestamp
                              - cauldronLevels[i - 1].timestamp), Num(1000 * 60)),
                      Sub(cauldronLevels[i].level, cauldronLevels[i - 1].level),
                      fillRate)
         \o DrainEvents(cauldronLevels, i + 1, fillRate)

\* sum plus the entries first..last of seq, added from the left
RECURSIVE SumRange(_, _, _, _)
SumRange(seq, first, last, sum) ==
    IF first > last THEN sum
    ELSE IF first = last THEN Add(sum, seq[first])
    ELSE CHOOSE out \in
             {SumRange(seq, Mid(first, last) + 1, last, half) :
                  half \in {SumRange(seq, first, Mid(first, last), sum)}} : TRUE

\* reduce((sum, x) => sum + x, 0) from entry idx on
SumSeq(seq, idx) ==
    CHOOSE total \in {SumRange(terms, idx, Len(terms), Num(0)) : terms \in {seq}} : TRUE

\* the first accepted rate taken for the mean
FirstRate(drainEvents) ==
    IF Len(drainEvents) > 0 THEN drainEvents[1] ELSE Num(DefaultDrainRate)

\* lines 132-141
AverageRate(drainEvents) ==
    IF Len(drainEvents) > 0
    THEN Div(SumSeq(drainEvents, 1), Num(Len(drainEvents)))
    ELSE Num(DefaultDrainRate)

\* lines 51-141
RateFrom(cauldronLevels, fillRate) ==
    IF Len(cauldronLevels) < 2 THEN Num(DefaultDrainRate)
    ELSE AverageRate(DrainEvents(cauldronLevels, 2, fillRate))

\* the readings with their sort key, and back
Keyed(raw) == [i \in 1..Len(raw) |-> [key |-> Num(raw[i].timestamp), r |-> raw[i]]]
Unkeyed(sorted) == [i \in 1..Len(sorted) |-> sorted[i].r]

\* rates[cauldronId] of calculateDrainRatesFromHistory
calculateDrainRate(cauldron, readings) ==
    RateFrom(Unkeyed(SortByKey(Keyed(ReadingsOf(readings, 1, cauldron.id)), 1, <<>>)),
             cauldron.fillRate)

calculateDrainRatesFromHistory(cauldronList, readings) ==
    [i \in 1..Len(cauldronList) |->
        [id |-> cauldronList[i].id, rate |-> calculateDrainRate(cauldronList[i], readings)]]

DefaultMaxVolume == 1000

calculateOverflowTimes(cauldronList, levelList, rates) ==
    [i \in 1..Len(cauldronList) |->
        LET cauldron == cauldronList[i]
            cauldronId == cauldron.id
            li == FindIndex({pos \in 1..Len(levelList) : levelList[pos].cauldron_id = cauldronId})
            di == FindIndex({pos \in 1..Len(rates) : rates[pos].id = cauldronId})
            currentLevel == IF li = 0 THEN Num(0) ELSE OrElse(levelList[li].level, Num(0))
            maxVolume == OrElse(cauldron.maxVolume, Num(DefaultMaxVolume))
            fillRate == OrElse(cauldron.fillRate, Num(0))
            drainRate == IF di = 0 THEN Num(DefaultDrainRate)
                         ELSE OrElse(rates[di].rate, Num(DefaultDrainRate))
            timeUntilOverflow == IF Gt(fillRate, Num(0))
                                 THEN Div(Sub(maxVolume, currentLevel), fillRate)
                                 ELSE Infinity
        IN  [id |-> cauldronId, currentLevel |-> currentLevel, maxVolume |-> maxVolume,
             fillRate |-> fillRate, drainRate |-> drainRate,
             timeUntilOverflow |-> timeUntilOverflow]]

SlowDrainTime == 30
MinDrainTime == 5
DrainTimeCapacity == 100
MinVolume == 10

calculateDrainTime(cauldron, currentLevel) ==
    LET drainRate == OrElse(cauldron.drainRate, Num(DefaultDrainRate))
        effectiveDrainRate == Sub(drainRate, cauldron.fillRate)
        targetLevel == Mul(cauldron.maxVolume, <<3, 10>>)
        volumeNeeded == Max2(Num(0), Sub(currentLevel, targetLevel))
        actualVolumeToDrain == Min2(Min2(volumeNeeded, Num(DrainTimeCapacity)),
                                    Mul(currentLevel, <<7, 10>>))
        drainTime == Div(actualVolumeToDrain, effectiveDrainRate)
    IN  IF Le(effectiveDrainRate, Num(0)) THEN Num(SlowDrainTime)
        ELSE Max2(Num(MinDrainTime), drainTime)

\* calculateDrainVolume without the witch capacity limit of line 549
calculateDrainVolumeUncapped(cauldron, currentLevel, drainTime, maxCapacity) ==
    Max2(Num(MinVolume),
         Min2(Max2(Num(0), Sub(currentLevel, Mul(cauldron.maxVolume, <<3, 10>>))),
              Max2(Num(0), Mul(currentLevel, <<7, 10>>))))

\* calculateDrainVolume without the minimum worthwhile volume of line 553
calculateDrainVolumeNoMinimum(cauldron, currentLevel, drainTime, maxCapacity) ==
    Min2(Min2(Max2(Num(0), Sub(currentLevel, Mul(cauldron.maxVolume, <<3, 10>>))),
              Max2(Num(0), Mul(currentLevel, <<7, 10>>))),
         maxCapacity)

calculateDrainVolume(cauldron, currentLevel, drainTime, maxCapacity) ==
    LET targetLevel == Mul(cauldron.maxVolume, <<3, 10>>)
        volumeNeeded == Max2(Num(0), Sub(currentLevel, targetLevel))
        availableToDrain == Max2(Num(0), Mul(currentLevel, <<7, 10>>))
        witchCapacityLimit == maxCapacity
        volumeCollected == Min2(Min2(volumeNeeded, availableToDrain), witchCapacityLimit)
    IN  Max2(Num(MinVolume), volumeCollected)

-----------------------------------------------------------------------------
(* Trip builder *)

\* the cauldron object with the given id (ids are unique)
CauldronById(states, id) == states[FindIndex({pos \in 1..Len(states) : states[pos].id = id})]

\* pool: sequence of cauldron ids; the objects live in states
\* one pass of the loop of getReachableCauldrons: what it pushes, lines 575-581
Reached(cauldron, res) ==
    IF res.distance # Infinity /\ res.path # null
    THEN <<[cauldron |-> cauldron, pathDistance |-> res.distance, path |-> res.path]>>
    ELSE <<>>

\* the sequences first..last of pushed, joined in order
RECURSIVE Flatten(_, _, _)
Flatten(pushed, first, last) ==
    IF first > last THEN <<>>
    ELSE IF first = last THEN pushed[first]
    ELSE Flatten(pushed, first, Mid(first, last)) \o Flatten(pushed, Mid(first, last) + 1, last)

getReachableCauldrons(currentNodeId, pool, states, adj) ==
    \* each pass is bound as a value before the passes are joined
    CHOOSE reachable \in
        {Flatten(pushed, 1, Len(pushed)) :
            pushed \in {[idx \in 1..Len(pool) |->
                             Reached(CauldronById(states, pool[idx]),
                                     dijkstra(adj, currentNodeId, pool[idx]))]}} : TRUE

ScoreScale == 10000

\* floor(x * ScoreScale) of a finite number x >= 0
Scaled(x) == (x[1] \div x[2]) * ScoreScale + ((x[1] % x[2]) * ScoreScale) \div x[2]

UrgencyWeight == 10000
ProximityWeight == 1000
CapacityBonus == 2000
FirstStopBonus == 10000
LateLimit == 60

\* the visit a candidate would get, lines 613-622
Offer(r, currentTime, drainTime, maxCapacity) ==
    [id |-> r.cauldron.id,
     travelTime |-> r.pathDistance,
     arrivalTime |-> Add(currentTime, r.pathDistance),
     drainTime |-> drainTime,
     volumeToCollect |-> calculateDrainVolume(r.cauldron, r.cauldron.currentLevel,
                                              drainTime, maxCapacity),
     path |-> r.path]

\* the skips of lines 630-651 without the two capacity tests
RejectedWhenLate(cauldron, offer, currentCapacity, maxCapacity, isFirstStop) ==
    ~isFirstStop /\ Lt(Sub(cauldron.timeUntilOverflow, offer.arrivalTime), Num(-LateLimit))

\* the skips with the lateness test applied to the first stop as well
RejectedFirstStopLate(cauldron, offer, currentCapacity, maxCapacity, isFirstStop) ==
    \/ Lt(Sub(cauldron.timeUntilOverflow, offer.arrivalTime), Num(-LateLimit))
    \/ IF ~isFirstStop
       THEN Gt(Add(currentCapacity, offer.volumeToCollect), maxCapacity)
       ELSE Gt(offer.volumeToCollect, maxCapacity)

\* the skips of lines 630-651
Rejected(cauldron, offer, currentCapacity, maxCapacity, isFirstStop) ==
    IF ~isFirstStop
    THEN \/ Lt(Sub(cauldron.timeUntilOverflow, offer.arrivalTime), Num(-LateLimit))
         \/ Gt(Add(currentCapacity, offer.volumeToCollect), maxCapacity)
    ELSE Gt(offer.volumeToCollect, maxCapacity)

\* urgencyScore, proximityScore, efficiencyScore * 0.5 and the two bonuses, lines 654-663
ScoreTerms(cauldron, offer, currentCapacity, maxCapacity, isFirstStop) ==
    <<Max2(Num(0), Div(Num(UrgencyWeight), Max2(Num(1), cauldron.timeUntilOverflow))),
      Div(Num(ProximityWeight), Max2(Num(1), offer.travelTime)),
      Mul(Div(offer.volumeToCollect,
              Max2(Num(1), Add(offer.travelTime, offer.drainTime))), <<1, 2>>),
      Num((IF Le(Add(currentCapacity, offer.volumeToCollect), maxCapacity)
           THEN CapacityBonus ELSE 0)
          + (IF isFirstStop THEN FirstStopBonus ELSE 0))>>

\* the score of line 665, in units of 1/ScoreScale, each term rounded down
ScoreOf(terms) ==
    Scaled(terms[1]) + Scaled(terms[2]) + Scaled(terms[3]) + terms[4][1] * ScoreScale

Scored(rejected, terms, offer) ==
    [rejected |-> rejected, terms |-> terms, score |-> ScoreOf(terms), best |-> offer]

Judged(cauldron, offer, currentCapacity, maxCapacity, isFirstStop) ==
    Scored(Rejected(cauldron, offer, currentCapacity, maxCapacity, isFirstStop),
           ScoreTerms(cauldron, offer, currentCapacity, maxCapacity, isFirstStop),
           offer)

\* one pass of the candidate loop of findNextCriticalCauldron, lines 612-678
Candidate(r, currentTime, currentCapacity, maxCapacity, isFirstStop) ==
    Judged(r.cauldron,
           Offer(r, currentTime, calculateDrainTime(r.cauldron, r.cauldron.currentLevel),
                 maxCapacity),
           currentCapacity, maxCapacity, isFirstStop)

Candidates(reachable, currentTime, currentCapacity, maxCapacity, isFirstStop) ==
    [i \in 1..Len(reachable) |->
        Candidate(reachable[i], currentTime, currentCapacity, maxCapacity, isFirstStop)]

\* the first candidate of the greatest score among those not skipped (score > bestScore)
BestCandidate(cands) ==
    LET open == {i \in 1..Len(cands) : ~cands[i].rejected}
    IN  IF open = {} THEN null
        ELSE cands[CHOOSE i \in open :
                       \A j \in open : /\ cands[j].score <= cands[i].score
                                       /\ (cands[j].score = cands[i].score => i <= j)].best

findNextCriticalCauldron(currentNodeId, pool, states, currentTime, adj, currentCapacity, maxCapacity, isFirstStop) ==
    BestCandidate(Candidates(getReachableCauldrons(currentNodeId, pool, states, adj),
                             currentTime, currentCapacity, maxCapacity, isFirstStop))

-----------------------------------------------------------------------------
(* Cycle time, daily schedule, overflow verifier *)

\* one pass of the loop of calculateMaxCycleTime
LeastTimeToFill(cauldron, minTimeToFill) ==
    LET timeToFill == Div(Mul(cauldron.maxVolume, <<7, 10>>), cauldron.fillRate)
    IN  IF Gt(cauldron.fillRate, Num(0))
        THEN Min2(minTimeToFill, timeToFill)
        ELSE minTimeToFill

\* the passes for the cauldrons first..last, in order
RECURSIVE MinTimeToFill(_, _, _, _)
MinTimeToFill(cauldronList, first, last, minTimeToFill) ==
    IF first > last THEN minTimeToFill
    ELSE IF first = last THEN LeastTimeToFill(cauldronList[first], minTimeToFill)
    ELSE CHOOSE out \in
             {MinTimeToFill(cauldronList, Mid(first, last) + 1, last, half) :
                  half \in {MinTimeToFill(cauldronList, first, Mid(first, last),
                                          minTimeToFill)}} : TRUE

calculateMaxCycleTime(cauldronList) ==
    Mul(MinTimeToFill(cauldronList, 1, Len(cauldronList), Infinity), <<7, 10>>)

\* the entries one witch contributes to the daily schedule, lines 1155-1173
RECURSIVE WitchSchedule(_, _, _)
WitchSchedule(witchData, tripIdx, witchTime) ==
    IF tripIdx > Len(witchData.trips) THEN <<>>
    ELSE LET aTrip == witchData.trips[tripIdx]
         IN  <<[witchId |-> witchData.witchId, tripNumber |-> tripIdx,
                totalTrips |-> Len(witchData.trips), startMinute |-> witchTime,
                route |-> aTrip, key |-> witchTime]>>
             \o WitchSchedule(witchData, tripIdx + 1, Add(witchTime, aTrip.totalTime))

AllWitchSchedules(witchRoutes, witchIdx) ==
    Flatten([w \in 1..Len(witchRoutes) |-> WitchSchedule(witchRoutes[w], 1, Num(0))],
            witchIdx, Len(witchRoutes))

\* the schedule without the sort of line 1177
generateDailyScheduleUnsorted(witchRoutes, cycleTime) ==
    LET schedule == AllWitchSchedules(witchRoutes, 1)
    IN  [totalShifts |-> Len(schedule), schedule |-> schedule]

generateDailySchedule(witchRoutes, cycleTime) ==
    LET schedule == SortByKey(AllWitchSchedules(witchRoutes, 1), 1, <<>>)
    IN  [totalShifts |-> Len(schedule), schedule |-> schedule]

\* the drain events of one trip from its stop stopIdx on, lines 285-298
RECURSIVE TripEvents(_, _, _, _)
TripEvents(witchId, aTrip, tripIdx, stopIdx) ==
    IF stopIdx > Len(aTrip.stops) THEN <<>>
    ELSE (IF ~aTrip.stops[stopIdx].isMarket
          THEN <<[time |-> aTrip.stops[stopIdx].arrivalTime,
                  key |-> aTrip.stops[stopIdx].arrivalTime,
                  cauldronId |-> aTrip.stops[stopIdx].cauldronId,
                  volumeDrained |-> aTrip.stops[stopIdx].volumeCollected,
                  drainDuration |-> aTrip.stops[stopIdx].drainTime,
                  witchId |-> witchId, tripNum |-> tripIdx, stopNum |-> stopIdx]>>
          ELSE <<>>)
         \o TripEvents(witchId, aTrip, tripIdx, stopIdx + 1)

RECURSIVE WitchEvents(_, _)
WitchEvents(witchRoute, tripIdx) ==
    IF tripIdx > Len(witchRoute.trips) THEN <<>>
    ELSE TripEvents(witchRoute.witchId, witchRoute.trips[tripIdx], tripIdx, 1)
         \o WitchEvents(witchRoute, tripIdx + 1)

RouteEvents(witchRoutes, witchIdx) ==
    Flatten([w \in 1..Len(witchRoutes) |-> WitchEvents(witchRoutes[w], 1)],
            witchIdx, Len(witchRoutes))

DayMinutes == 1440
CriticalPercent == 95

\* the checks made at the level left after the drain
ArrivalAfterDrain(cauldron, event, levelBefore, st) ==
    [overflowIssues |->
         IF Gt(Sub(levelBefore, event.volumeDrained), cauldron.maxVolume)
         THEN Append(st.overflowIssues,
                  [cauldronId |-> cauldron.id, time |-> event.time,
                   level |-> levelBefore, maxVolume |-> cauldron.maxVolume,
                   overflow |-> Sub(levelBefore, cauldron.maxVolume),
                   message |-> "Overflows"])
         ELSE st.overflowIssues,
     criticalWarnings |->
         IF /\ ~Gt(Sub(levelBefore, event.volumeDrained), cauldron.maxVolume)
            /\ Gt(Mul(Div(Sub(levelBefore, event.volumeDrained), cauldron.maxVolume), Num(100)),
                  Num(CriticalPercent))
         THEN Append(st.criticalWarnings,
                  [cauldronId |-> cauldron.id, time |-> event.time,
                   level |-> levelBefore,
                   percentFull |-> Mul(Div(levelBefore, cauldron.maxVolume), Num(100))])
         ELSE st.criticalWarnings]

\* the checks before the drain, lines 354-378, at the level the fill has reached
Arrival(cauldron, event, levelBefore, st) ==
    [overflowIssues |->
         IF Gt(levelBefore, cauldron.maxVolume)
         THEN Append(st.overflowIssues,
                  [cauldronId |-> cauldron.id, time |-> event.time,
                   level |-> levelBefore, maxVolume |-> cauldron.maxVolume,
                   overflow |-> Sub(levelBefore, cauldron.maxVolume),
                   message |-> "Overflows"])
         ELSE st.overflowIssues,
     criticalWarnings |->
         IF /\ ~Gt(levelBefore, cauldron.maxVolume)
            /\ Gt(Mul(Div(levelBefore, cauldron.maxVolume), Num(100)),
                  Num(CriticalPercent))
         THEN Append(st.criticalWarnings,
                  [cauldronId |-> cauldron.id, time |-> event.time,
                   level |-> levelBefore,
                   percentFull |-> Mul(Div(levelBefore, cauldron.maxVolume), Num(100))])
         ELSE st.criticalWarnings]

\* the projection after the last event, lines 388-413 (cycleTime is currentTime)
LastVisit(cauldron, currentTime, timeToOverflow, issues) ==
    IF Lt(timeToOverflow, currentTime)
    THEN Append(issues,
             [cauldronId |-> cauldron.id, time |-> Add(currentTime, timeToOverflow),
              level |-> cauldron.maxVolume, maxVolume |-> cauldron.maxVolume,
              overflow |-> Num(0), message |-> "UNSUSTAINABLE"])
    ELSE issues

\* the drain and what follows it, lines 381-413
Departure(cauldron, isLast, currentLevel, currentTime, arrived) ==
    [currentLevel |-> currentLevel,
     currentTime |-> currentTime,
     overflowIssues |->
         IF isLast
         THEN LastVisit(cauldron, currentTime,
                        Div(Sub(cauldron.maxVolume, currentLevel), cauldron.fillRate),
                        arrived.overflowIssues)
         ELSE arrived.overflowIssues,
     criticalWarnings |-> arrived.criticalWarnings]

\* one pass of cauldronEvents.forEach, lines 347-414
SimulateEvent(cauldron, event, isLast, st, levelBefore) ==
    Departure(cauldron, isLast,
              Sub(levelBefore, event.volumeDrained),
              Add(event.time, event.drainDuration),
              Arrival(cauldron, event, levelBefore, st))

RECURSIVE SimulateEvents(_, _, _, _)
SimulateEvents(cauldron, cauldronEvents, idx, st) ==
    IF idx > Len(cauldronEvents) THEN st
    ELSE SimulateEvents(cauldron, cauldronEvents, idx + 1,
             SimulateEvent(cauldron, cauldronEvents[idx], idx = Len(cauldronEvents), st,
                 Add(st.currentLevel,
                     Mul(cauldron.fillRate,
                         Sub(cauldronEvents[idx].time, st.currentTime)))))

\* a cauldron without events, lines 324-339
Unserved(cauldron, timeToOverflow, found) ==
    IF Lt(timeToOverflow, Num(DayMinutes))
    THEN [found EXCEPT !.overflowIssues =
             Append(@, [cauldronId |-> cauldron.id, time |-> timeToOverflow,
                        level |-> cauldron.maxVolume, maxVolume |-> cauldron.maxVolume,
                        overflow |-> Num(0), message |-> "NO SERVICE SCHEDULED"])]
    ELSE found

Found(st) ==
    [overflowIssues |-> st.overflowIssues, criticalWarnings |-> st.criticalWarnings]

\* one pass of cauldronStates.forEach, lines 313-415
SimulateCauldron(cauldron, cauldronEvents, found) ==
    IF Len(cauldronEvents) = 0
    THEN Unserved(cauldron,
                  Div(Sub(cauldron.maxVolume, cauldron.currentLevel), cauldron.fillRate),
                  found)
    ELSE Found(SimulateEvents(cauldron, cauldronEvents, 1,
                   [currentLevel |-> cauldron.currentLevel, currentTime |-> Num(0),
                    overflowIssues |-> found.overflowIssues,
                    criticalWarnings |-> found.criticalWarnings]))

\* cauldronStates.forEach from cauldron idx on; what one cauldron adds to the
\* two lists is bound as a value (foundSoFar) before the next cauldron is taken
RECURSIVE SimulateCauldrons(_, _, _, _)
SimulateCauldrons(states, idx, events, found) ==
    IF idx > Len(states) THEN found
    ELSE CHOOSE verdict \in
             {SimulateCauldrons(states, idx + 1, events, foundSoFar) :
                  foundSoFar \in {SimulateCauldron(states[idx],
                                      SelectSeq(events, LAMBDA e : e.cauldronId = states[idx].id),
                                      found)}} : TRUE

\* returned: the boolean the function returns; overflowIssues and
\* criticalWarnings: its two local lists at the point of return
Verdict(found) ==
    [returned |-> Len(found.overflowIssues) = 0,
     overflowIssues |-> found.overflowIssues,
     criticalWarnings |-> found.criticalWarnings]

verifyNoOverflows(witchRoutes, states, levelList) ==
    Verdict(SimulateCauldrons(states, 1, SortByKey(RouteEvents(witchRoutes, 1), 1, <<>>),
                [overflowIssues |-> <<>>, criticalWarnings |-> <<>>]))

-----------------------------------------------------------------------------
(* optimizeRoutes as a state machine: Start (lines 858-951), BuildStep (one  *)
(* pass of the loop of buildSingleRoute, lines 722-804), CloseTrip (the rest *)
(* of buildSingleRoute and of the scheduler's loop body, lines 806-833 and   *)
(* 974-1078) and Finish (lines 1081-1140).                                   *)

MarketId == "market"
DefaultCapacity == 100
MaxTotalTrips == 200
MAX_ITERATIONS == 10
maxRouteTime == 120
unloadTime == 15
VisitLimit == 10
ProgressCheckEvery == 5
SafePercent == 50

\* the locals of buildSingleRoute at its first loop test, lines 699-720
NewTrip(pool) ==
    [route |-> [stops |-> <<>>, totalTime |-> Num(0), totalVolume |-> Num(0),
                totalDistance |-> Num(0)],
     fullyServiced |-> <<>>,
     currentNode |-> MarketId,
     currentTime |-> Num(0),
     currentCapacity |-> Num(0),
     isFirstStop |-> TRUE,
     iterations |-> 0,
     remainingCauldrons |-> pool]

\* couriers[0]?.max_carrying_capacity || couriers[0]?.capacity || 100
CapacityOf(courierList) ==
    IF Len(courierList) = 0 THEN Num(DefaultCapacity)
    ELSE OrElse(courierList[1].max_carrying_capacity, Num(DefaultCapacity))

\* the cauldron states without the filter of lines 894-905
ReachableUnfiltered(states, adj) == states

\* the filter of lines 894-905
ReachableFilter(states, adj) ==
    SelectSeq(states, LAMBDA c :
        MapHas(adj, c.id) /\ dijkstra(adj, MarketId, c.id).distance # Infinity)

\* reachableCauldrons after the sort of line 915, as ids
SortByUrgency(reachable) ==
    LET keyed == [i \in 1..Len(reachable) |->
                     [key |-> reachable[i].timeUntilOverflow, id |-> reachable[i].id]]
        sorted == SortByKey(keyed, 1, <<>>)
    IN  [i \in 1..Len(sorted) |-> sorted[i].id]

Start ==
    /\ pc = "start"
    /\ \E rates \in {calculateDrainRatesFromHistory(cauldrons, allLevels)},
          adj \in {buildAdjacencyMap(network)} :
       \E states \in {calculateOverflowTimes(cauldrons, levels, rates)} :
       \E reachable \in {ReachableFilter(states, adj)} :
       \E ids \in {SortByUrgency(reachable)} :
           /\ drainRates' = rates
           /\ adjacency' = adj
           /\ IF ~MapHas(adj, MarketId)
              THEN /\ pc' = "done"
                   /\ result' = null
                   /\ UNCHANGED <<cauldronStates, reachableCauldrons, maxCycleTime,
                                  unvisited, visitCount, courierCapacity, routes, trip>>
              ELSE IF Len(reachable) = 0
              THEN /\ pc' = "done"
                   /\ result' = null
                   /\ cauldronStates' = states
                   /\ UNCHANGED <<reachableCauldrons, maxCycleTime, unvisited, visitCount,
                                  courierCapacity, routes, trip>>
              ELSE /\ cauldronStates' = states
                   /\ reachableCauldrons' = ids
                   /\ maxCycleTime' = calculateMaxCycleTime(reachable)
                   /\ routes' = <<>>
                   /\ unvisited' = ids
                   /\ visitCount' = [id \in {ids[i] : i \in 1..Len(ids)} |-> 0]
                   /\ courierCapacity' = CapacityOf(couriers)
                   /\ trip' = NewTrip(ids)
                   /\ pc' = "build"
                   /\ UNCHANGED result
    /\ UNCHANGED <<inputVars, queryVars, witchIndex, totalTrips, verification>>

\* one pass of the while loop of buildSingleRoute
BuildStep ==
    /\ pc = "build"
    /\ \E nextCauldron \in {findNextCriticalCauldron(trip.currentNode,
                               trip.remainingCauldrons, cauldronStates, trip.currentTime,
                               adjacency, trip.currentCapacity, courierCapacity,
                               trip.isFirstStop)} :
           IF nextCauldron = null
           THEN /\ trip' = [trip EXCEPT !.iterations = @ + 1]
                /\ pc' = "return"
                /\ UNCHANGED cauldronStates
           ELSE LET stop == [cauldronId |-> nextCauldron.id,
                             arrivalTime |-> nextCauldron.arrivalTime,
                             drainTime |-> nextCauldron.drainTime,
                             volumeCollected |-> nextCauldron.volumeToCollect,
                             travelTime |-> nextCauldron.travelTime,
                             isMarket |-> FALSE,
                             path |-> nextCauldron.path]
                    k == FindIndex({pos \in 1..Len(cauldronStates) :
                                       cauldronStates[pos].id = nextCauldron.id})
                    cauldronData == cauldronStates[k]
                    afterDrainLevel == Sub(cauldronData.currentLevel,
                                           nextCauldron.volumeToCollect)
                    percentFullAfter == Mul(Div(afterDrainLevel, cauldronData.maxVolume),
                                            Num(100))
                    safe == Lt(percentFullAfter, Num(SafePercent))
                    capacity == Add(trip.currentCapacity, nextCauldron.volumeToCollect)
                    time == Add(nextCauldron.arrivalTime, nextCauldron.drainTime)
                    remaining == IF safe
                                 THEN LET at == FindIndex({pos \in 1..Len(trip.remainingCauldrons) :
                                                    trip.remainingCauldrons[pos] = nextCauldron.id})
                                      IN  SubSeq(trip.remainingCauldrons, 1, at - 1)
                                          \o SubSeq(trip.remainingCauldrons, at + 1,
                                                    Len(trip.remainingCauldrons))
                                 ELSE trip.remainingCauldrons
                    stops == Ge(capacity, courierCapacity) \/ Ge(time, Num(maxRouteTime))
                IN  /\ cauldronStates' = [cauldronStates EXCEPT
                                             ![k].currentLevel = afterDrainLevel]
                    /\ trip' = [route |-> [trip.route EXCEPT
                                    !.stops = Append(@, stop),
                                    !.totalDistance = Add(@, nextCauldron.travelTime)],
                                fullyServiced |-> IF safe
                                                  THEN Append(trip.fullyServiced,
                                                              nextCauldron.id)
                                                  ELSE trip.fullyServiced,
                                currentNode |-> nextCauldron.id,
                                currentTime |-> time,
                                currentCapacity |-> capacity,
                                isFirstStop |-> FALSE,
                                iterations |-> trip.iterations + 1,
                                remainingCauldrons |-> remaining]
                    /\ pc' = IF stops \/ Len(remaining) = 0
                                \/ trip.iterations + 1 >= MAX_ITERATIONS
                             THEN "return" ELSE "build"
    /\ UNCHANGED <<inputVars, queryVars, adjacency, drainRates, reachableCauldrons,
                   maxCycleTime, unvisited, visitCount, courierCapacity, routes,
                   witchIndex, totalTrips, verification, result>>

\* the route buildSingleRoute returns, lines 809-833
ReturnToMarket(aTrip, returnTime, returnPath) ==
    [stops |-> Append(aTrip.route.stops,
                   [cauldronId |-> MarketId,
                    arrivalTime |-> Add(aTrip.currentTime, returnTime),
                    drainTime |-> Num(unloadTime),
                    volumeCollected |-> Num(0),
                    travelTime |-> returnTime,
                    isMarket |-> TRUE,
                    path |-> returnPath]),
     totalTime |-> Add(Add(aTrip.currentTime, returnTime), Num(unloadTime)),
     totalVolume |-> aTrip.currentCapacity,
     totalDistance |-> Add(aTrip.route.totalDistance, returnTime)]

ReturnTime(returnResult) ==
    IF returnResult.distance # Infinity THEN returnResult.distance ELSE Num(0)

\* the route returned as the loop left it, without the closing market stop
ReturnAsBuilt(aTrip, returnResult) == aTrip.route

ReturnVia(aTrip, returnResult) ==
    IF Len(aTrip.route.stops) > 0
    THEN ReturnToMarket(aTrip, ReturnTime(returnResult), returnResult.path)
    ELSE aTrip.route

ClosedRoute(aTrip, adj) == ReturnVia(aTrip, dijkstra(adj, aTrip.currentNode, MarketId))

\* visitCount after the forEach of lines 1020-1024
RECURSIVE CountVisits(_, _, _)
CountVisits(tripStops, idx, counts) ==
    IF idx > Len(tripStops) THEN counts
    ELSE LET id == tripStops[idx].cauldronId
         IN  CountVisits(tripStops, idx + 1,
                 IF id \in DOMAIN counts THEN [counts EXCEPT ![id] = @ + 1]
                 ELSE (id :> 1) @@ counts)

\* routes after lines 1026-1044 if a known witch's trips were replaced, not extended
WithOnlyTrip(witchRoutes, witchForThisTrip, capacity, route) ==
    IF \E at \in 1..Len(witchRoutes) : witchRoutes[at].witchId = witchForThisTrip + 1
    THEN [at \in 1..Len(witchRoutes) |->
             IF witchRoutes[at].witchId = witchForThisTrip + 1
             THEN [witchRoutes[at] EXCEPT !.trips = <<route>>]
             ELSE witchRoutes[at]]
    ELSE Append(witchRoutes, [witchId |-> witchForThisTrip + 1, capacity |-> capacity,
                              trips |-> <<route>>])

\* routes after lines 1026-1044
WithTrip(witchRoutes, witchForThisTrip, capacity, route) ==
    LET at == FindIndex({pos \in 1..Len(witchRoutes) : witchRoutes[pos].witchId = witchForThisTrip + 1})
    IN  IF at = 0
        THEN Append(witchRoutes, [witchId |-> witchForThisTrip + 1, capacity |-> capacity,
                                  trips |-> <<route>>])
        ELSE [witchRoutes EXCEPT ![at].trips = Append(@, route)]

\* the pool left as it is by the two removals of lines 1047-1053 and 1065-1070
RemoveNone(pool, ids, idx) == pool

\* a splice of the first occurrence of each id, lines 1047-1053 and 1065-1070
RECURSIVE RemoveIds(_, _, _)
RemoveIds(pool, ids, idx) ==
    IF idx > Len(ids) THEN pool
    ELSE LET at == FindIndex({pos \in 1..Len(pool) : pool[pos] = ids[idx]})
         IN  RemoveIds(IF at = 0 THEN pool
                       ELSE SubSeq(pool, 1, at - 1) \o SubSeq(pool, at + 1, Len(pool)),
                       ids, idx + 1)

\* a pool update that removes no cauldron for its visits
VisitedEnoughNever(pool, counts) == <<>>

\* toRemove: the cauldrons of the pool visited 10 times or more, lines 1057-1063
VisitedEnoughLate(pool, counts) == SelectSeq(pool, LAMBDA id : counts[id] > VisitLimit)
VisitedEnough(pool, counts) == SelectSeq(pool, LAMBDA id : counts[id] >= VisitLimit)

\* a new witch after every trip that leaves cauldrons in the pool
NextWitchEveryTrip(index, trips, pool) == IF Len(pool) > 0 THEN index + 1 ELSE index

\* witchIndex after the periodic check of lines 1075-1077
NextWitchIndex(index, trips, pool) ==
    IF trips % ProgressCheckEvery = 0 /\ Len(pool) > 0 THEN index + 1 ELSE index

\* the loop of optimizeRoutes without the ceiling on the trips of line 953
WhilePoolNotEmpty(pool, trips) == Len(pool) > 0

\* while (unvisited.length > 0 && totalTrips < 200), line 953
LoopContinues(pool, trips) == Len(pool) > 0 /\ trips < MaxTotalTrips

CloseTrip ==
    /\ pc = "return"
    /\ \E route \in {ClosedRoute(trip, adjacency)}, visited \in {trip.fullyServiced} :
       \E tripStops \in {SelectSeq(route.stops, LAMBDA st : ~st.isMarket)} :
       \E counts \in {CountVisits(tripStops, 1, visitCount)},
          served \in {RemoveIds(unvisited, visited, 1)} :
       \E toRemove \in {VisitedEnough(served, counts)} :
       \E pool \in {RemoveIds(served, toRemove, 1)} :
           IF Len(visited) = 0 /\ Len(tripStops) = 0
           THEN /\ pc' = "finish"
                /\ UNCHANGED <<visitCount, routes, unvisited, totalTrips, witchIndex, trip>>
           ELSE /\ visitCount' = counts
                /\ routes' = WithTrip(routes, witchIndex, courierCapacity, route)
                /\ unvisited' = pool
                /\ totalTrips' = totalTrips + 1
                /\ witchIndex' = NextWitchIndex(witchIndex, totalTrips + 1, pool)
                /\ IF LoopContinues(pool, totalTrips + 1)
                   THEN pc' = "build" /\ trip' = NewTrip(pool)
                   ELSE pc' = "finish" /\ UNCHANGED trip
    /\ UNCHANGED <<inputVars, queryVars, adjacency, drainRates, cauldronStates,
                   reachableCauldrons, maxCycleTime, courierCapacity, verification, result>>

\* routes.flatMap(witch => witch.trips)
AllTrips(witchRoutes, idx) ==
    Flatten([w \in 1..Len(witchRoutes) |-> witchRoutes[w].trips], idx, Len(witchRoutes))

\* the reduce calls of lines 1108-1116
TotalVolume(witchRoutes) ==
    LET all == AllTrips(witchRoutes, 1)
    IN  SumSeq([i \in 1..Len(all) |-> all[i].totalVolume], 1)

TotalStops(witchRoutes) ==
    LET all == AllTrips(witchRoutes, 1)
    IN  SumSeq([i \in 1..Len(all) |->
                   Num(Len(SelectSeq(all[i].stops, LAMBDA st : ~st.isMarket)))], 1)

Finish ==
    /\ pc = "finish"
    /\ verification' = verifyNoOverflows(routes, cauldronStates, levels)
    /\ result' =
          [routes |-> routes,
           drainRates |-> drainRates,
           minWitches |-> Len(routes),
           totalTrips |-> totalTrips,
           maxCycleTime |-> maxCycleTime,
           dailySchedule |-> generateDailySchedule(routes, maxCycleTime),
           stats |-> [totalVolume |-> TotalVolume(routes),
                      totalStops |-> TotalStops(routes),
                      totalTrips |-> totalTrips,
                      cauldronsCovered |-> Len(reachableCauldrons) - Len(unvisited),
                      unreachableCauldrons |-> Len(unvisited)]]
    /\ pc' = "done"
    /\ UNCHANGED <<inputVars, queryVars, adjacency, drainRates, cauldronStates,
                   reachableCauldrons, maxCycleTime, unvisited, visitCount,
                   courierCapacity, routes, witchIndex, totalTrips, trip>>

Next == Start \/ BuildStep \/ CloseTrip \/ Finish

-----------------------------------------------------------------------------
(* Planning runs: the inputs are drawn from bounded sets, then one call of *)
(* optimizeRoutes runs to its return.                                      *)

MaxFillRate == 2

Edge(a, b, t) == [from |-> a, to |-> b, travel_time_minutes |-> t]

\* two cauldrons A and B, a junction C that holds no cauldron
RouteNetworks ==
    { <<Edge(MarketId, "A", 10), Edge(MarketId, "B", 20)>>,
      <<Edge(MarketId, "A", 10), Edge("A", "B", 5)>>,
      <<Edge(MarketId, "A", 10), Edge(MarketId, "B", 30), Edge("A", "B", 5)>>,
      <<Edge(MarketId, "A", 10)>>,
      <<Edge(MarketId, "A", 10), Edge("B", "C", 5)>>,
      <<Edge(MarketId, "C", 10)>>,
      <<Edge("A", "B", 5)>>,
      <<Edge(MarketId, "A", 70), Edge(MarketId, "B", 20)>> }

MaxVolumes == {100, 1000}

\* starting levels of a cauldron of the given size: empty, 40%, full
StartLevels(maxVolume) == {0, (maxVolume * 2) \div 5, maxVolume}

Profiles ==
    UNION {[maxVolume : {Num(mv)}, fillRate : {Num(f) : f \in 0..MaxFillRate},
            level : {Num(l) : l \in StartLevels(mv)}] : mv \in MaxVolumes}

Rosters ==
    {<<>>} \cup {<<[max_carrying_capacity |-> Num(c)]>> : c \in {5, 10, 100}}

Init ==
    /\ network \in RouteNetworks
    /\ \E pa \in Profiles, pb \in Profiles :
          /\ cauldrons = <<[id |-> "A", maxVolume |-> pa.maxVolume, fillRate |-> pa.fillRate],
                           [id |-> "B", maxVolume |-> pb.maxVolume, fillRate |-> pb.fillRate]>>
          /\ levels = <<[cauldron_id |-> "A", level |-> pa.level],
                        [cauldron_id |-> "B", level |-> pb.level]>>
    /\ couriers \in Rosters
    /\ allLevels = <<>>
    /\ pc = "start"
    /\ adjacency = null /\ drainRates = null /\ cauldronStates = null
    /\ reachableCauldrons = null /\ maxCycleTime = null /\ unvisited = null
    /\ visitCount = null /\ courierCapacity = null /\ routes = null
    /\ witchIndex = 0 /\ totalTrips = 0 /\ trip = null
    /\ verification = null /\ result = null
    /\ travelTimes = null /\ shortestPaths = null

Spec == Init /\ [][Next]_vars

-----------------------------------------------------------------------------
(* Properties of the planning runs *)

\* two candidates have the same terms or scores further apart than the
\* rounding of their three scaled terms
Decided(cands) ==
    \A i \in 1..Len(cands) : \A j \in 1..Len(cands) :
        \/ cands[i].terms = cands[j].terms
        \/ cands[i].score - cands[j].score > 3
        \/ cands[j].score - cands[i].score > 3

\* the order of the scaled scores is the order of the exact scores at every
\* choice the trip builder makes
ScoresDecided ==
    pc = "build" =>
        Decided(Candidates(getReachableCauldrons(trip.currentNode, trip.remainingCauldrons,
                                                 cauldronStates, adjacency),
                           trip.currentTime, trip.currentCapacity, courierCapacity,
                           trip.isFirstStop))

\* every trip recorded so far, witch by witch
RecordedTrips == AllTrips(routes, 1)

\* the sum of volumeCollected over the stops of a trip
Load(aTrip) == SumSeq([i \in 1..Len(aTrip.stops) |-> aTrip.stops[i].volumeCollected], 1)

CauldronStops(aTrip) == SelectSeq(aTrip.stops, LAMBDA st : ~st.isMarket)

\* C1: in every recorded trip the volumes collected sum to no more than the
\* courier capacity of the run, and the running load of the trip being built
\* is no more than that capacity after every committed stop
C1_CapacityRespected ==
    /\ \A t \in 1..Len(RecordedTrips) : Le(Load(RecordedTrips[t]), courierCapacity)
    /\ pc \in {"build", "return"} => Le(trip.currentCapacity, courierCapacity)

\* a trip has ended below the capacity because the volume of the cauldron
\* still waiting would not fit on top of the load
C1_TurnedDownForCapacity ==
    /\ pc = "return"
    /\ Len(trip.route.stops) >= 1
    /\ Lt(trip.currentCapacity, courierCapacity)
    /\ \E k \in 1..Len(cauldronStates) :
           /\ InSeq(trip.remainingCauldrons, cauldronStates[k].id)
           /\ cauldronStates[k].id # trip.currentNode
           /\ Gt(Add(trip.currentCapacity,
                     calculateDrainVolume(cauldronStates[k], cauldronStates[k].currentLevel,
                                          Num(0), courierCapacity)),
                 courierCapacity)

\* C2: every stop of every recorded trip collects a volume >= 0, every
\* cauldron stop collects at least the minimum worthwhile volume, and the
\* market stop that closes the trip collects 0
C2_VolumesBounded ==
    \A t \in 1..Len(RecordedTrips) :
        LET stops == RecordedTrips[t].stops
        IN  /\ \A i \in 1..Len(stops) :
                  /\ Ge(stops[i].volumeCollected, Num(0))
                  /\ ~stops[i].isMarket => Ge(stops[i].volumeCollected, Num(MinVolume))
                  /\ stops[i].isMarket => stops[i].volumeCollected = Num(0)
            /\ Len(stops) > 0
            /\ stops[Len(stops)].isMarket

\* the minimum volume was collected from a cauldron that held less than it
C2_MinimumFromEmpty ==
    /\ \E t \in 1..Len(RecordedTrips) :
           \E i \in 1..Len(RecordedTrips[t].stops) :
               /\ ~RecordedTrips[t].stops[i].isMarket
               /\ RecordedTrips[t].stops[i].volumeCollected = Num(MinVolume)
    /\ \E k \in 1..Len(cauldronStates) : Lt(cauldronStates[k].currentLevel, Num(0))

\* the level the input gives a cauldron at the start of the run
StartLevel(id) == levels[FindIndex({pos \in 1..Len(levels) : levels[pos].cauldron_id = id})].level

\* the visits one shift of the daily schedule pays to a cauldron, each at its
\* time of day: the start of the shift plus the arrival time within the trip
RECURSIVE ShiftVisits(_, _, _)
ShiftVisits(shift, stopIdx, id) ==
    IF stopIdx > Len(shift.route.stops) THEN <<>>
    ELSE (IF ~shift.route.stops[stopIdx].isMarket
             /\ shift.route.stops[stopIdx].cauldronId = id
          THEN <<[key |-> Add(shift.startMinute, shift.route.stops[stopIdx].arrivalTime),
                  volume |-> shift.route.stops[stopIdx].volumeCollected,
                  duration |-> shift.route.stops[stopIdx].drainTime]>>
          ELSE <<>>)
         \o ShiftVisits(shift, stopIdx + 1, id)

RECURSIVE ScheduledVisits(_, _, _)
ScheduledVisits(schedule, idx, id) ==
    IF idx > Len(schedule) THEN <<>>
    ELSE ShiftVisits(schedule[idx], 1, id) \o ScheduledVisits(schedule, idx + 1, id)

\* the visits of a day to a cauldron, in order of time
DayVisits(id) == SortByKey(ScheduledVisits(result.dailySchedule.schedule, 1, id), 1, <<>>)

\* the level at time to of a cauldron that held level at time from
Risen(cauldron, level, from, to) ==
    Add(level, Mul(cauldron.fillRate, Max2(Num(0), Sub(to, from))))

\* replay of the visits from visit idx on: some visit finds more than maxVolume
RECURSIVE OverflowsBeforeVisit(_, _, _, _, _)
OverflowsBeforeVisit(cauldron, visits, idx, level, time) ==
    IF idx > Len(visits) THEN FALSE
    ELSE \/ Gt(Risen(cauldron, level, time, visits[idx].key), cauldron.maxVolume)
         \/ OverflowsBeforeVisit(cauldron, visits, idx + 1,
                Sub(Risen(cauldron, level, time, visits[idx].key), visits[idx].volume),
                Add(visits[idx].key, visits[idx].duration))

\* C3: when verifyNoOverflows has returned true for the schedule of the run,
\* the replay of the daily schedule from the input levels finds no cauldron
\* above its maxVolume at the start of a visit
C3_VerifiedScheduleNeverOverflows ==
    (pc = "done" /\ result # null /\ verification.returned) =>
        \A k \in 1..Len(cauldrons) :
            ~OverflowsBeforeVisit(cauldrons[k], DayVisits(cauldrons[k].id), 1,
                                  StartLevel(cauldrons[k].id), Num(0))

\* the nodes joined to a node of S by a chain of edges
RECURSIVE Joined(_, _)
Joined(net, S) ==
    IF \E i \in 1..Len(net) : (net[i].from \in S) # (net[i].to \in S)
    THEN Joined(net, S \cup {net[i].to : i \in {k \in 1..Len(net) : net[k].from \in S}}
                       \cup {net[i].from : i \in {k \in 1..Len(net) : net[k].to \in S}})
    ELSE S

\* the ids of the cauldrons that a path joins to the market
ReachableIds ==
    {cauldrons[k].id : k \in 1..Len(cauldrons)} \cap Joined(network, {MarketId})

\* the cauldron has a stop in a recorded trip
Visited(id) ==
    \E t \in 1..Len(RecordedTrips) :
        \E i \in 1..Len(RecordedTrips[t].stops) :
            /\ ~RecordedTrips[t].stops[i].isMarket
            /\ RecordedTrips[t].stops[i].cauldronId = id

\* C4: a cauldron reachable from the market never leaves the pool without a
\* stop in a recorded trip; and at the end of the run the covered and the
\* uncovered figures of the result add up to the number of reachable
\* cauldrons, the uncovered figure being the size of the pool
C4_CoveredOrInPool ==
    /\ pc # "start" => \A id \in ReachableIds : Visited(id) \/ InSeq(unvisited, id)
    /\ (pc = "done" /\ ReachableIds # {}) =>
           /\ result # null
           /\ result.stats.unreachableCauldrons = Len(unvisited)
           /\ result.stats.cauldronsCovered + result.stats.unreachableCauldrons
                  = Cardinality(ReachableIds)

\* a run has ended in which one cauldron left the pool by the visit limit and
\* the other by being drained to safety
C4_LeftByVisitLimit ==
    /\ pc = "done"
    /\ result # null
    /\ Cardinality(ReachableIds) = 2
    /\ result.stats.cauldronsCovered = 2
    /\ \E id \in ReachableIds : visitCount[id] >= VisitLimit
    /\ \E id \in ReachableIds : visitCount[id] < VisitLimit

\* C5: a cauldron that no path joins to the market has no stop in any trip
\* and is among the cauldrons the returned result counts as uncovered
C5_UnreachableReported ==
    pc = "done" =>
        \A k \in 1..Len(cauldrons) :
            cauldrons[k].id \notin ReachableIds =>
                /\ ~Visited(cauldrons[k].id)
                /\ result # null
                /\ InSeq(unvisited, cauldrons[k].id)

\* C6: while every reachable cauldron has fillRate 0 the witch index is never
\* advanced and no second witch gets a trip
C6_ZeroFillKeepsOneWitch ==
    (/\ pc # "start"
     /\ \A k \in 1..Len(cauldrons) :
            cauldrons[k].id \in ReachableIds => cauldrons[k].fillRate = Num(0))
        => witchIndex = 0 /\ Len(routes) <= 1

-----------------------------------------------------------------------------
(* Graph queries: a network is drawn, then the two query functions are     *)
(* applied to every ordered pair of nodes.                                 *)

MaxEdges == 3
Nodes == {MarketId, "A", "B", "C"}

\* one direction for each of the six pairs of nodes
Links == {<<MarketId, "A">>, <<"A", "B">>, <<"B", MarketId>>,
          <<"B", "C">>, <<"C", "A">>, <<MarketId, "C">>}

\* the pairs that may also be joined by a slow edge
SlowLinks == {<<MarketId, "A">>, <<"A", "B">>, <<"B", MarketId>>, <<"B", "C">>}

Edges == {Edge(l[1], l[2], 1) : l \in Links} \cup {Edge(l[1], l[2], 3) : l \in SlowLinks}

\* the sequences of n elements of S
RECURSIVE SeqsOfLen(_, _)
SeqsOfLen(S, n) ==
    IF n = 0 THEN {<<>>} ELSE {Append(s, e) : s \in SeqsOfLen(S, n - 1), e \in S}

GraphNetworks == UNION {SeqsOfLen(Edges, n) : n \in 0..MaxEdges}

InitGraph ==
    /\ network \in GraphNetworks
    /\ cauldrons = <<>> /\ levels = <<>> /\ couriers = <<>> /\ allLevels = <<>>
    /\ pc = "idle"
    /\ adjacency = null /\ drainRates = null /\ cauldronStates = null
    /\ reachableCauldrons = null /\ maxCycleTime = null /\ unvisited = null
    /\ visitCount = null /\ courierCapacity = null /\ routes = null
    /\ witchIndex = 0 /\ totalTrips = 0 /\ trip = null
    /\ verification = null /\ result = null
    /\ travelTimes = null
    /\ shortestPaths = null

QueryShortestPaths ==
    /\ pc = "idle"
    /\ shortestPaths = null
    /\ \E adj \in {buildAdjacencyMap(network)} :
           shortestPaths' = [a \in Nodes |-> [b \in Nodes |-> dijkstra(adj, a, b)]]
    /\ UNCHANGED <<inputVars, runVars, travelTimes>>

QueryTravelTimes ==
    /\ pc = "idle"
    /\ shortestPaths # null
    /\ travelTimes = null
    /\ travelTimes' = [a \in Nodes |-> [b \in Nodes |-> getTravelTime(a, b, network)]]
    /\ UNCHANGED <<inputVars, runVars, shortestPaths>>

NextGraph == QueryShortestPaths \/ QueryTravelTimes

SpecGraph == InitGraph /\ [][NextGraph]_vars

-----------------------------------------------------------------------------
(* Properties of the graph queries *)

\* the nodes of the graph: the ends of the edges of the network
GraphNodes == {network[i].from : i \in 1..Len(network)}
                  \cup {network[i].to : i \in 1..Len(network)}

\* the edges of the network that join a and b, by position
Joining(a, b) ==
    {i \in 1..Len(network) : {network[i].from, network[i].to} = {a, b}}

\* the weight of the first listed edge joining a and b
FirstWeight(a, b) ==
    network[CHOOSE i \in Joining(a, b) : \A j \in Joining(a, b) : i <= j].travel_time_minutes

\* the least weight of an edge joining a and b
LeastWeight(a, b) ==
    CHOOSE w \in {network[i].travel_time_minutes : i \in Joining(a, b)} :
        \A i \in Joining(a, b) : w <= network[i].travel_time_minutes

Least(S) == CHOOSE x \in S : \A y \in S : x <= y

\* the weights of the paths from a to b that pass through no node of avoid
RECURSIVE PathWeights(_, _, _)
PathWeights(a, b, avoid) ==
    IF a = b THEN {0}
    ELSE UNION {{LeastWeight(a, n) + w : w \in PathWeights(n, b, avoid \cup {a})} :
                   n \in {m \in GraphNodes \ (avoid \cup {a}) : Joining(a, m) # {}}}

QueriesSymmetric ==
    \A a \in GraphNodes : \A b \in GraphNodes :
        /\ travelTimes[a][b] = travelTimes[b][a]
        /\ shortestPaths[a][b].distance = shortestPaths[b][a].distance

\* C7 as stated: both queries are symmetric, and for every edge (a, b, w) of
\* the network both return w for the pair
C7_SymmetricAndDirectWeight ==
    travelTimes # null =>
        /\ QueriesSymmetric
        /\ \A i \in 1..Len(network) :
               /\ travelTimes[network[i].from][network[i].to]
                      = Num(network[i].travel_time_minutes)
               /\ shortestPaths[network[i].from][network[i].to].distance
                      = Num(network[i].travel_time_minutes)

\* C7: both queries are symmetric; for every edge (a, b, w) of the network
\* getTravelTime returns the weight of the first listed edge joining a and b,
\* and dijkstra returns a distance of at most w
C7_SymmetricAndDirectBound ==
    travelTimes # null =>
        /\ QueriesSymmetric
        /\ \A i \in 1..Len(network) :
               /\ travelTimes[network[i].from][network[i].to]
                      = Num(FirstWeight(network[i].from, network[i].to))
               /\ Le(shortestPaths[network[i].from][network[i].to].distance,
                     Num(network[i].travel_time_minutes))

\* an edge whose ends are closer by a detour than by the edge itself
C7_DetourBeatsEdge ==
    /\ travelTimes # null
    /\ \E i \in 1..Len(network) :
           /\ Lt(shortestPaths[network[i].from][network[i].to].distance,
                 Num(network[i].travel_time_minutes))
           /\ travelTimes[network[i].from][network[i].to]
                  = Num(network[i].travel_time_minutes)

\* C8: getTravelTime(a, c) <= getTravelTime(a, b) + getTravelTime(b, c) for
\* all nodes a, b, c of the graph that are reachable from one another
C8_TriangleInequality ==
    travelTimes # null =>
        \A a \in GraphNodes : \A b \in GraphNodes : \A c \in GraphNodes :
            (travelTimes[a][b] # null /\ travelTimes[b][c] # null
                 /\ travelTimes[a][c] # null)
                => Le(travelTimes[a][c], Add(travelTimes[a][b], travelTimes[b][c]))

\* the path steps along edges of the graph
AlongEdges(path) == \A i \in 1..(Len(path) - 1) : Joining(path[i], path[i + 1]) # {}

\* the sum of the least edge weights along the path
RECURSIVE WeightAlong(_, _)
WeightAlong(path, i) ==
    IF i >= Len(path) THEN 0 ELSE LeastWeight(path[i], path[i + 1]) + WeightAlong(path, i + 1)

\* what dijkstra and getTravelTime answered for a and b is right, given the
\* weights of all the paths from a to b
Answered(a, b, weights, res) ==
    IF weights # {}
    THEN /\ res.distance = Num(Least(weights))
         /\ res.path # null
         /\ res.path[1] = a
         /\ res.path[Len(res.path)] = b
         /\ AlongEdges(res.path)
         /\ WeightAlong(res.path, 1) = Least(weights)
    ELSE /\ res.distance = Infinity
         /\ res.path = null
         /\ travelTimes # null => travelTimes[a][b] = null

\* C9: for distinct nodes a, b of the graph, dijkstra returns the least total
\* weight of a path from a to b and a path from a to b along edges of that
\* weight when one exists; otherwise distance Infinity and a null path, and
\* getTravelTime returns null
C9_ShortestOrUnreachable ==
    shortestPaths # null =>
        \A a \in GraphNodes : \A b \in GraphNodes \ {a} :
            Answered(a, b, PathWeights(a, b, {}), shortestPaths[a][b])

\* two nodes joined by an edge get a path through a third node
C9_PathByDetour ==
    /\ travelTimes # null
    /\ \E a \in GraphNodes : \E b \in GraphNodes \ {a} :
           /\ Joining(a, b) # {}
           /\ shortestPaths[a][b].path # null
           /\ Len(shortestPaths[a][b].path) = 3

\* a graph of two parts: a pair of its nodes gets Infinity, no path and null
NoPathAnswered ==
    /\ travelTimes # null
    /\ \E a \in GraphNodes : \E b \in GraphNodes \ {a} :
           /\ PathWeights(a, b, {}) = {}
           /\ shortestPaths[a][b].distance = Infinity
           /\ shortestPaths[a][b].path = null
           /\ travelTimes[a][b] = null

\* C10: for a node a of the graph, dijkstra(a, a) returns the distance 0 and
\* the path of a alone, and getTravelTime(a, a) returns 0
C10_SelfQueryTrivialPath ==
    travelTimes # null =>
        \A a \in GraphNodes :
            /\ shortestPaths[a][a].distance = Num(0)
            /\ shortestPaths[a][a].path = <<a>>
            /\ travelTimes[a][a] = Num(0)

-----------------------------------------------------------------------------
(* Properties of the planning runs: configuration errors and reporting *)

\* C11: when the market is no node of the graph, or no cauldron is joined to
\* it, optimizeRoutes returns null without building a trip or running the
\* verifier
C11_AbortsWithoutMarketOrReachable ==
    (pc # "start" /\ (MarketId \notin GraphNodes \/ ReachableIds = {})) =>
        /\ pc = "done"
        /\ result = null
        /\ routes = null
        /\ trip = null
        /\ totalTrips = 0
        /\ verification = null

\* the market is in the graph, no cauldron is joined to it, the run is over
C11_MarketAlone ==
    /\ pc = "done"
    /\ MarketId \in GraphNodes
    /\ ReachableIds = {}
    /\ result = null

\* C12: with an empty courier roster optimizeRoutes builds no trip and
\* returns no schedule
C12_EmptyRosterAborts ==
    (pc # "start" /\ couriers = <<>>) =>
        /\ trip = null
        /\ routes \in {null, <<>>}
        /\ pc = "done" => result = null

\* the fields of the returned result that describe the schedule and its
\* statistics
ScheduleFields ==
    {"routes", "drainRates", "minWitches", "totalTrips", "maxCycleTime", "dailySchedule",
     "stats"}

StatsFields ==
    {"totalVolume", "totalStops", "totalTrips", "cauldronsCovered", "unreachableCauldrons"}

\* C13: when the verifier has found an overflow or an unsustainable cauldron
\* the schedule is still returned, and a field of the returned result, or of
\* its statistics, holds what the verifier found
C13_ResultCarriesVerification ==
    (pc = "done" /\ result # null /\ ~verification.returned) =>
        /\ result.routes = routes
        /\ \/ \E f \in DOMAIN result \ ScheduleFields :
                  result[f] \in {verification, verification.overflowIssues}
           \/ \E f \in DOMAIN result.stats \ StatsFields :
                  result.stats[f] \in {verification, verification.overflowIssues}

-----------------------------------------------------------------------------
(* The two-cauldron scenario: A is 10 minutes from the market, holds 950 of *)
(* 1000 and fills at 2; B is 20 minutes away, holds 100 of 800 and fills at *)
(* 1; no historical readings. The network and the roster are drawn as in    *)
(* the planning runs.                                                       *)

InitScenario ==
    /\ network \in RouteNetworks
    /\ cauldrons = <<[id |-> "A", maxVolume |-> Num(1000), fillRate |-> Num(2)],
                     [id |-> "B", maxVolume |-> Num(800), fillRate |-> Num(1)]>>
    /\ levels = <<[cauldron_id |-> "A", level |-> Num(950)],
                  [cauldron_id |-> "B", level |-> Num(100)]>>
    /\ couriers \in Rosters
    /\ allLevels = <<>>
    /\ pc = "start"
    /\ adjacency = null /\ drainRates = null /\ cauldronStates = null
    /\ reachableCauldrons = null /\ maxCycleTime = null /\ unvisited = null
    /\ visitCount = null /\ courierCapacity = null /\ routes = null
    /\ witchIndex = 0 /\ totalTrips = 0 /\ trip = null
    /\ verification = null /\ result = null
    /\ travelTimes = null /\ shortestPaths = null

SpecScenario == InitScenario /\ [][Next]_vars

\* both cauldrons joined to the market by an edge, one courier of capacity 100
ScenarioGiven ==
    /\ network = <<Edge(MarketId, "A", 10), Edge(MarketId, "B", 20)>>
    /\ couriers = <<[max_carrying_capacity |-> Num(100)]>>

\* the trip stops at A, collects 100 there and goes back to the market
OnlyAThenMarket(stops) ==
    /\ Len(stops) >= 1
    /\ stops[1].cauldronId = "A"
    /\ stops[1].volumeCollected = Num(100)
    /\ \A i \in 2..Len(stops) : stops[i].isMarket

\* C14: in the scenario the first trip stops first at A and collects 100, goes
\* back to the market without a stop at B, and B has a stop in a later trip of
\* the returned schedule
C14_FirstTripServesAOnly ==
    ScenarioGiven =>
        /\ (pc = "return" /\ totalTrips = 0) => OnlyAThenMarket(trip.route.stops)
        /\ (pc # "start" /\ totalTrips > 0) =>
               /\ OnlyAThenMarket(RecordedTrips[1].stops)
               /\ Len(RecordedTrips[1].stops) = 2
        /\ pc = "done" =>
               /\ result # null
               /\ \E w \in 1..Len(result.routes) : \E t \in 1..Len(result.routes[w].trips) :
                      /\ <<w, t>> # <<1, 1>>
                      /\ \E i \in 1..Len(result.routes[w].trips[t].stops) :
                             result.routes[w].trips[t].stops[i].cauldronId = "B"

\* the scenario has run to its end and B got its stop from a second witch
C14_BServedLater ==
    /\ ScenarioGiven
    /\ pc = "done"
    /\ result # null
    /\ Len(result.routes) = 2
    /\ \E i \in 1..Len(result.routes[2].trips[1].stops) :
           result.routes[2].trips[1].stops[i].cauldronId = "B"

-----------------------------------------------------------------------------
(* Long runs: a star of full cauldrons around the market, each 10 minutes   *)
(* away, so that every trip serves one cauldron and a cauldron leaves the   *)
(* pool only by the visit limit. With a capacity below the minimum volume   *)
(* no trip can be built.                                                    *)

MaxCauldrons == 21

CauldronNames ==
    <<"A", "B", "C", "D", "E", "F", "G", "H", "I", "J", "K", "L",
      "M", "N", "O", "P", "Q", "R", "S", "T", "U", "V", "W", "X">>

StarSizes == {1} \cup ((MaxCauldrons - 1)..MaxCauldrons)

InitLong ==
    /\ \E n \in StarSizes :
          /\ network = [i \in 1..n |-> Edge(MarketId, CauldronNames[i], 10)]
          /\ cauldrons = [i \in 1..n |-> [id |-> CauldronNames[i], maxVolume |-> Num(1000),
                                           fillRate |-> Num(1)]]
          /\ levels = [i \in 1..n |-> [cauldron_id |-> CauldronNames[i],
                                        level |-> Num(1000)]]
    /\ couriers \in {<<[max_carrying_capacity |-> Num(c)]>> : c \in {5, 10}}
    /\ allLevels = <<>>
    /\ pc = "start"
    /\ adjacency = null /\ drainRates = null /\ cauldronStates = null
    /\ reachableCauldrons = null /\ maxCycleTime = null /\ unvisited = null
    /\ visitCount = null /\ courierCapacity = null /\ routes = null
    /\ witchIndex = 0 /\ totalTrips = 0 /\ trip = null
    /\ verification = null /\ result = null
    /\ travelTimes = null /\ shortestPaths = null

\* a call of optimizeRoutes runs on until it returns.  Every action assigns all
\* it changes once its pc guard holds, so a step of Next is possible exactly
\* while pc # "done", and weak fairness of Next is the condition that the run
\* is done or steps again and again
RunsOn == []<>(pc = "done") \/ []<><<Next>>_vars
SpecLong == InitLong /\ [][Next]_vars /\ RunsOn

\* the trips recorded are those counted, and no more than the ceiling
TripsBounded ==
    routes # null => (totalTrips <= MaxTotalTrips /\ Len(RecordedTrips) = totalTrips)

\* the reasons for which the scheduling loop stops
PoolEmpty == Len(unvisited) = 0
NoStopBuilt == Len(trip.route.stops) = 0
CeilingHit == totalTrips = MaxTotalTrips

\* after a trip without stops the pool left is what the result counts as uncovered
StuckReported ==
    (pc = "done" /\ result # null /\ NoStopBuilt) =>
        (Len(unvisited) > 0 /\ result.stats.unreachableCauldrons = Len(unvisited))

\* C15 as stated: the scheduling loop terminates after at most 200 recorded
\* trips, and when it has stopped exactly one of these holds: the pool is
\* empty, the last trip built had no stop and was not recorded, 200 trips
\* are recorded
C15_StopsForExactlyOneReason ==
    /\ <>(pc = "done")
    /\ [](TripsBounded /\ StuckReported)
    /\ [](pc = "finish" =>
             /\ PoolEmpty \/ NoStopBuilt \/ CeilingHit
             /\ ~(PoolEmpty /\ NoStopBuilt)
             /\ ~(PoolEmpty /\ CeilingHit)
             /\ ~(NoStopBuilt /\ CeilingHit))

\* C15: the scheduling loop terminates after at most 200 recorded trips, and
\* when it has stopped the pool is empty, or the last trip built had no stop
\* and was not recorded, or 200 trips are recorded; a trip without stops
\* excludes the other two
C15_StopsForAReason ==
    /\ <>(pc = "done")
    /\ [](TripsBounded /\ StuckReported)
    /\ [](pc = "finish" =>
             /\ PoolEmpty \/ NoStopBuilt \/ CeilingHit
             /\ ~(PoolEmpty /\ NoStopBuilt)
             /\ ~(NoStopBuilt /\ CeilingHit))

\* the loop has stopped at the ceiling with cauldrons left in the pool
C15_StoppedAtCeiling ==
    /\ pc = "finish"
    /\ CeilingHit
    /\ ~PoolEmpty
    /\ ~NoStopBuilt

-----------------------------------------------------------------------------
(* Properties of the trip builder: the first stop *)

\* C16: a trip built for a courier that carries at least 10 from a pool with
\* a cauldron reachable from the market has at least one stop, however late
\* the courier arrives
C16_TripHasAStop ==
    (pc = "return" /\ Ge(courierCapacity, Num(MinVolume))) =>
        Len(trip.route.stops) >= 1

\* a trip whose first stop is reached more than an hour after the overflow
C16_FirstStopLate ==
    /\ pc = "return"
    /\ Ge(courierCapacity, Num(MinVolume))
    /\ Len(trip.route.stops) >= 1
    /\ \E k \in 1..Len(cauldronStates) :
           /\ cauldronStates[k].id = trip.route.stops[1].cauldronId
           /\ Lt(Sub(cauldronStates[k].timeUntilOverflow, trip.route.stops[1].arrivalTime),
                 Num(-LateLimit))

-----------------------------------------------------------------------------
(* Properties of the verifier *)

\* the level of the latest reading supplied for the cauldron
SuppliedLevel(id) ==
    levels[CHOOSE l \in 1..Len(levels) : levels[l].cauldron_id = id].level

\* C17: when the trips are built and the verifier is about to run, the level
\* it starts each cauldron from (the currentLevel of the cauldron object it is
\* handed) is the level supplied in the input
C17_VerifierStartsFromInput ==
    (pc = "finish" /\ cauldronStates # null) =>
        \A k \in 1..Len(cauldronStates) :
            cauldronStates[k].currentLevel = SuppliedLevel(cauldronStates[k].id)

\* the event list the verifier walks for one cauldron: the drain events of
\* the recorded trips, sorted by time, filtered by cauldron
EventsOf(id) ==
    SelectSeq(SortByKey(RouteEvents(routes, 1), 1, <<>>), LAMBDA e : e.cauldronId = id)

\* C18: in the event list of every cauldron, a visit ends (time plus
\* drainDuration) no later than the next visit arrives, so the time the
\* verifier fills over between two visits is never negative
C18_VisitsInOrder ==
    (pc = "finish" /\ cauldronStates # null) =>
        \A k \in 1..Len(cauldronStates) :
            \A i \in 1..(Len(EventsOf(cauldronStates[k].id)) - 1) :
                \E ev \in {EventsOf(cauldronStates[k].id)} :
                    Le(Add(ev[i].time, ev[i].drainDuration), ev[i + 1].time)

\* the levels the fill reaches just before each visit of the list ev from
\* visit idx on, replayed from the level and the time the verifier holds
RECURSIVE LevelsBefore(_, _, _, _, _)
LevelsBefore(fillRate, ev, idx, level, time) ==
    IF idx > Len(ev) THEN <<>>
    ELSE LET before == Add(level, Mul(fillRate, Sub(ev[idx].time, time)))
         IN  <<before>> \o LevelsBefore(fillRate, ev, idx + 1,
                                Sub(before, ev[idx].volumeDrained),
                                Add(ev[idx].time, ev[idx].drainDuration))

\* the visits of a cauldron, each with the level before it
VisitsOf(cauldron) ==
    LET ev == EventsOf(cauldron.id)
        before == LevelsBefore(cauldron.fillRate, ev, 1, cauldron.currentLevel, Num(0))
    IN  [i \in 1..Len(ev) |-> [time |-> ev[i].time, level |-> before[i]]]

AboveMax(cauldron, visit) == Gt(visit.level, cauldron.maxVolume)
NearMax(cauldron, visit) ==
    /\ ~Gt(visit.level, cauldron.maxVolume)
    /\ Gt(Mul(Div(visit.level, cauldron.maxVolume), Num(100)), Num(CriticalPercent))

\* what the verifier recorded for a cauldron at its visits
OverflowsRecorded(id) ==
    SelectSeq(verification.overflowIssues,
              LAMBDA issue : issue.cauldronId = id /\ issue.message = "Overflows")
WarningsRecorded(id) ==
    SelectSeq(verification.criticalWarnings, LAMBDA warning : warning.cauldronId = id)

\* C19: the verifier records, for every cauldron, one overflow issue for each
\* visit whose level before the drain is above maxVolume, with the cauldron,
\* the time of the visit and overflow = level - maxVolume, and one critical
\* warning and no overflow issue for each visit whose level before the drain
\* is above 95% of maxVolume and not above maxVolume; it returns true when it
\* has recorded no overflow issue, whatever the warnings
C19_ChecksBeforeDrain ==
    (pc = "done" /\ verification # null) =>
        /\ \A k \in 1..Len(cauldronStates) :
              \E cauldron \in {cauldronStates[k]} :
              \E visits \in {VisitsOf(cauldron)} :
              \E over \in {SelectSeq(visits, LAMBDA v : AboveMax(cauldron, v))},
                 near \in {SelectSeq(visits, LAMBDA v : NearMax(cauldron, v))},
                 issues \in {OverflowsRecorded(cauldron.id)},
                 warnings \in {WarningsRecorded(cauldron.id)} :
                  /\ Len(issues) = Len(over)
                  /\ \A i \in 1..Len(over) :
                         /\ issues[i].time = over[i].time
                         /\ issues[i].overflow = Sub(over[i].level, cauldron.maxVolume)
                  /\ Len(warnings) = Len(near)
                  /\ \A i \in 1..Len(near) :
                         /\ warnings[i].time = near[i].time
                         /\ warnings[i].level = near[i].level
        /\ (Len(verification.overflowIssues) = 0 => verification.returned)

\* a run verified with a visit above maxVolume and a visit between 95% and 100%
C19_OverflowAndWarning ==
    /\ pc = "done" /\ verification # null
    /\ \E k \in 1..Len(cauldronStates) : Len(OverflowsRecorded(cauldronStates[k].id)) > 0
    /\ Len(verification.criticalWarnings) > 0

\* the level the verifier holds after the last visit of a visited cauldron
LevelAfterLast(cauldron) ==
    LET ev == EventsOf(cauldron.id)
    IN  Sub(VisitsOf(cauldron)[Len(ev)].level, ev[Len(ev)].volumeDrained)

FlaggedUnsustainable(id) ==
    \E i \in 1..Len(verification.overflowIssues) :
        /\ verification.overflowIssues[i].cauldronId = id
        /\ verification.overflowIssues[i].message = "UNSUSTAINABLE"

\* C20: a visited cauldron is flagged as unsustainable exactly when its time
\* to overflow from the level after its last visit,
\* (maxVolume - level) / fillRate, is less than the maxCycleTime of the
\* schedule
C20_UnsustainableByCycleTime ==
    (pc = "done" /\ verification # null) =>
        \A k \in 1..Len(cauldronStates) :
            Len(EventsOf(cauldronStates[k].id)) > 0 =>
                (FlaggedUnsustainable(cauldronStates[k].id)
                     <=> Lt(Div(Sub(cauldronStates[k].maxVolume,
                                    LevelAfterLast(cauldronStates[k])),
                                cauldronStates[k].fillRate),
                            maxCycleTime))

-----------------------------------------------------------------------------
(* Properties of the planned levels and of the pool *)

\* C21: the planned level of every cauldron stays within [0, maxVolume]
\* while trips are built (no stop collects more than the planned level)
C21_PlannedLevelInRange ==
    cauldronStates # null =>
        \A k \in 1..Len(cauldronStates) :
            /\ Ge(cauldronStates[k].currentLevel, Num(0))
            /\ Le(cauldronStates[k].currentLevel, cauldronStates[k].maxVolume)

\* a step of the trip builder that commits a stop
StopCommitted ==
    pc = "build" /\ Len(trip'.route.stops) = Len(trip.route.stops) + 1

\* the cauldron of the stop just committed, as the position of its state
CommittedAt ==
    CHOOSE k \in 1..Len(cauldronStates) :
        cauldronStates[k].id = trip'.route.stops[Len(trip'.route.stops)].cauldronId

C23_PoolBelowVisitLimit ==
    /\ pc \in {"build", "finish"} =>
           \A i \in 1..Len(unvisited) : visitCount[unvisited[i]] < 10
    /\ pc \in {"build", "return"} =>
           \A i \in 1..Len(trip.route.stops) :
               visitCount[trip.route.stops[i].cauldronId] < 10

\* a cauldron has left the pool at its 10th visit, level above half, and a
\* later trip has a stop elsewhere
C23_RemovedAtLimit ==
    /\ pc = "return"
    /\ Len(trip.route.stops) > 0
    /\ \E k \in 1..Len(cauldronStates) :
           /\ cauldronStates[k].id \in ReachableIds
           /\ visitCount[cauldronStates[k].id] >= 10
           /\ ~InSeq(unvisited, cauldronStates[k].id)
           /\ Ge(Mul(Div(cauldronStates[k].currentLevel, cauldronStates[k].maxVolume),
                     Num(100)), Num(50))

-----------------------------------------------------------------------------
(* Properties of the fleet and of the daily schedule *)

\* the trips are recorded and counted
TripRecorded == pc = "return" /\ totalTrips' = totalTrips + 1

\* C24: the witches of the routes are numbered 1, 2, ... in order, every one
\* but the last has exactly 5 trips and the last has 1 to 5, so the fleet is
\* ceil(totalTrips / 5) <= 40 and every recorded trip is with one witch; the
\* witch index changes only when a trip is recorded, by one, exactly when
\* the trips recorded are then a multiple of 5 and the pool is not empty
C24_WitchesInOrder ==
    /\ [](routes # null =>
             /\ \A w \in 1..Len(routes) :
                    /\ routes[w].witchId = w
                    /\ Len(routes[w].trips) \in 1..5
                    /\ w < Len(routes) => Len(routes[w].trips) = 5
             /\ Len(RecordedTrips) = totalTrips
             /\ Len(routes) = (totalTrips + 4) \div 5
             /\ Len(routes) <= 40)
    /\ [][/\ witchIndex' \in {witchIndex, witchIndex + 1}
          /\ witchIndex' # witchIndex => TripRecorded
          /\ TripRecorded =>
                (witchIndex' = witchIndex + 1
                     <=> (totalTrips' % 5 = 0 /\ Len(unvisited') > 0))
          /\ (TripRecorded /\ pc' = "build") =>
                Len(routes') \in {witchIndex', witchIndex' + 1}]_vars

\* the 200th trip is recorded with the 40th witch
C24_FortyWitches ==
    /\ pc = "finish"
    /\ totalTrips = 200
    /\ Len(routes) = 40
    /\ Len(routes[40].trips) = 5

\* when trip n of witch w starts if the trips of w follow one another from 0
StartOf(w, n) ==
    SumSeq([i \in 1..(n - 1) |-> routes[w].trips[i].totalTime], 1)

Shifts == result.dailySchedule.schedule

\* C25: the daily schedule of a result has exactly one entry for every
\* recorded trip, starting at minute 0 for the first trip of a witch and at
\* the end of her previous trip for the others; the entries are in order of
\* startMinute, and totalShifts = totalTrips = the number of recorded trips
C25_TripsBackToBack ==
    (pc = "done" /\ result # null) =>
        /\ \A w \in 1..Len(routes) : \A n \in 1..Len(routes[w].trips) :
               \E i \in 1..Len(Shifts) :
                   /\ Shifts[i].witchId = routes[w].witchId
                   /\ Shifts[i].tripNumber = n
                   /\ Shifts[i].route = routes[w].trips[n]
                   /\ Shifts[i].startMinute = StartOf(w, n)
                   /\ n > 1 => Shifts[i].startMinute
                                  = Add(StartOf(w, n - 1), routes[w].trips[n - 1].totalTime)
                   /\ \A j \in 1..Len(Shifts) :
                          (Shifts[j].witchId = routes[w].witchId /\ Shifts[j].tripNumber = n)
                              => j = i
        /\ \A i \in 1..(Len(Shifts) - 1) : Le(Shifts[i].startMinute, Shifts[i + 1].startMinute)
        /\ result.dailySchedule.totalShifts = Len(Shifts)
        /\ Len(Shifts) = result.totalTrips
        /\ Len(Shifts) = Len(RecordedTrips)

\* a schedule in which a trip of the second witch comes before a later trip
\* of the first
C25_WitchesInterleaved ==
    /\ pc = "done" /\ result # null
    /\ \E i \in 1..Len(Shifts) : \E j \in (i + 1)..Len(Shifts) :
           /\ Shifts[i].witchId = 2
           /\ Shifts[j].witchId = 1
           /\ Lt(Shifts[i].startMinute, Shifts[j].startMinute)

-----------------------------------------------------------------------------
(* Properties of the recorded trips *)

\* the trip has 1 to 10 cauldron stops, then the market stop, which is last
StopsThenMarket(aTrip) ==
    /\ Len(aTrip.stops) \in 2..11
    /\ aTrip.stops[Len(aTrip.stops)].isMarket
    /\ aTrip.stops[Len(aTrip.stops)].cauldronId = MarketId
    /\ \A i \in 1..(Len(aTrip.stops) - 1) : ~aTrip.stops[i].isMarket

\* the totals of the trip are those of its stops
TotalsOfStops(aTrip) ==
    /\ aTrip.totalVolume = Load(aTrip)
    /\ aTrip.totalDistance
           = SumSeq([i \in 1..Len(aTrip.stops) |-> aTrip.stops[i].travelTime], 1)
    /\ aTrip.totalTime = Add(aTrip.stops[Len(aTrip.stops)].arrivalTime, Num(15))

\* C26: every recorded trip has 1 to 10 cauldron stops followed by exactly
\* one market stop, arrival times that strictly increase along the stops,
\* totalVolume and totalDistance equal to the sums of volumeCollected and of
\* travelTime over its stops, and totalTime equal to the arrival at the
\* market plus the 15 minutes of unloading
C26_TripsWellFormed ==
    routes # null =>
        \E recorded \in {RecordedTrips} :
        \A t \in 1..Len(recorded) :
            \E aTrip \in {recorded[t]} :
                /\ StopsThenMarket(aTrip)
                /\ \A i \in 1..(Len(aTrip.stops) - 1) :
                       Lt(aTrip.stops[i].arrivalTime, aTrip.stops[i + 1].arrivalTime)
                /\ TotalsOfStops(aTrip)

\* a recorded trip with stops at two cauldrons before the market
C26_TwoCauldronTrip ==
    /\ routes # null
    /\ \E t \in 1..Len(RecordedTrips) :
           /\ Len(RecordedTrips[t].stops) = 3
           /\ RecordedTrips[t].stops[1].cauldronId # RecordedTrips[t].stops[2].cauldronId

-----------------------------------------------------------------------------
(* The drain rates read from a history of readings *)

MaxReadings == 3
MinuteMs == 60000

\* readings of cauldron A at minutes 1, 2 and 242 with levels 0, 999 and 1000,
\* and one reading of another cauldron
Readings ==
    [cauldron_id : {"A"}, timestamp : {MinuteMs, 2 * MinuteMs, 242 * MinuteMs},
     level : {Num(0), Num(999), Num(1000)}]
    \cup {[cauldron_id |-> "B", timestamp |-> MinuteMs, level |-> Num(500)]}

Histories == UNION {SeqsOfLen(Readings, n) : n \in 0..MaxReadings}

InitRates ==
    /\ network = <<>> /\ levels = <<>> /\ couriers = <<>>
    /\ \E f \in 0..MaxFillRate :
           cauldrons = <<[id |-> "A", maxVolume |-> Num(1000), fillRate |-> Num(f)]>>
    /\ allLevels \in Histories
    /\ pc = "idle"
    /\ adjacency = null /\ drainRates = null /\ cauldronStates = null
    /\ reachableCauldrons = null /\ maxCycleTime = null /\ unvisited = null
    /\ visitCount = null /\ courierCapacity = null /\ routes = null
    /\ witchIndex = 0 /\ totalTrips = 0 /\ trip = null
    /\ verification = null /\ result = null
    /\ travelTimes = null /\ shortestPaths = null

\* a call of calculateDrainRatesFromHistory
EstimateRates ==
    /\ pc = "idle"
    /\ drainRates = null
    /\ drainRates' = calculateDrainRatesFromHistory(cauldrons, allLevels)
    /\ pc' = "estimated"
    /\ UNCHANGED <<inputVars, queryVars, adjacency, cauldronStates, reachableCauldrons,
                   maxCycleTime, unvisited, visitCount, courierCapacity, routes,
                   witchIndex, totalTrips, trip, verification, result>>

NextRates == EstimateRates

SpecRates == InitRates /\ [][NextRates]_vars

\* the positions in the history of the readings of a cauldron
ReadingsAt(id) == {p \in 1..Len(allLevels) : allLevels[p].cauldron_id = id}

\* the place of reading p among the readings of its cauldron in order of
\* time, readings of the same time in the order of the history
PlaceOf(id, p) ==
    1 + Cardinality({q \in ReadingsAt(id) :
                        \/ allLevels[q].timestamp < allLevels[p].timestamp
                        \/ allLevels[q].timestamp = allLevels[p].timestamp /\ q < p})

ReadingPlaced(id, place) ==
    allLevels[CHOOSE p \in ReadingsAt(id) : PlaceOf(id, p) = place]

\* the gap in minutes, the change of level and the rate of the pair of
\* readings that ends at the given place
PairAt(id, fillRate, place) ==
    LET prev == ReadingPlaced(id, place - 1)
        curr == ReadingPlaced(id, place)
        gap == Div(Num(curr.timestamp - prev.timestamp), Num(MinuteMs))
        change == Sub(curr.level, prev.level)
    IN  [gap |-> gap, change |-> change, rate |-> Sub(fillRate, Div(change, gap))]

\* the rates of the pairs the estimate is taken over
AcceptedRates(id, fillRate) ==
    LET pairs == [k \in 1..(Cardinality(ReadingsAt(id)) - 1) |-> PairAt(id, fillRate, k + 1)]
        accepted == SelectSeq(pairs, LAMBDA pr :
                        /\ Lt(pr.change, Num(0))
                        /\ Gt(pr.gap, Num(0)) /\ Le(pr.gap, Num(240))
                        /\ Gt(pr.rate, <<1, 100>>) /\ Lt(pr.rate, Num(500)))
    IN  [k \in 1..Len(accepted) |-> accepted[k].rate]

\* C27: the drain rate returned for a cauldron is strictly between 0.01 and
\* 500; it is the mean of fillRate - levelChange / timeDiff over the pairs of
\* consecutive readings whose level went down, whose gap is in (0, 240]
\* minutes and whose rate is in that band, and 50 when there is no such pair;
\* a rate taken from readings is greater than the fill rate
C27_RateIsMeanInBand ==
    (pc = "estimated") =>
        \A i \in 1..Len(cauldrons) :
            \E rates \in {AcceptedRates(cauldrons[i].id, cauldrons[i].fillRate)},
               rate \in {drainRates[i].rate} :
                /\ drainRates[i].id = cauldrons[i].id
                /\ Gt(rate, <<1, 100>>) /\ Lt(rate, Num(500))
                /\ Len(rates) > 0 => rate = Div(SumSeq(rates, 1), Num(Len(rates)))
                /\ Len(rates) > 0 => Gt(rate, cauldrons[i].fillRate)
                /\ Len(rates) = 0 => rate = Num(50)

\* a rate is the mean of two different accepted rates, a third pair being
\* left out
C27_MeanOfTwo ==
    /\ pc = "estimated"
    /\ Cardinality(ReadingsAt("A")) = 3
    /\ \E rates \in {AcceptedRates("A", cauldrons[1].fillRate)} :
           /\ Len(rates) = 2
           /\ rates[1] # rates[2]

-----------------------------------------------------------------------------
(* Planning runs for a cauldron whose history shows a slow drain *)

\* no history, and a history in which the level went down by 1 in a minute
SlowHistories ==
    {<<>>,
     <<[cauldron_id |-> "A", timestamp |-> MinuteMs, level |-> Num(1000)],
       [cauldron_id |-> "A", timestamp |-> 2 * MinuteMs, level |-> Num(999)]>>}

InitSlowDrain ==
    /\ network = <<Edge(MarketId, "A", 10)>>
    /\ \E f \in 0..MaxFillRate :
           cauldrons = <<[id |-> "A", maxVolume |-> Num(1000), fillRate |-> Num(f)]>>
    /\ \E l \in StartLevels(1000) : levels = <<[cauldron_id |-> "A", level |-> Num(l)]>>
    /\ couriers \in Rosters
    /\ allLevels \in SlowHistories
    /\ pc = "start"
    /\ adjacency = null /\ drainRates = null /\ cauldronStates = null
    /\ reachableCauldrons = null /\ maxCycleTime = null /\ unvisited = null
    /\ visitCount = null /\ courierCapacity = null /\ routes = null
    /\ witchIndex = 0 /\ totalTrips = 0 /\ trip = null
    /\ verification = null /\ result = null
    /\ travelTimes = null /\ shortestPaths = null

SpecSlowDrain == InitSlowDrain /\ [][Next]_vars

\* C28: every stop at a cauldron whose drain rate exceeds its fill rate has
\* drainTime = max(5, volumeCollected / (drainRate - fillRate))
C28_TimeOfVolumeCollected ==
    (routes # null /\ cauldronStates # null) =>
        \E recorded \in {RecordedTrips} :
        \A t \in 1..Len(recorded) : \A i \in 1..Len(recorded[t].stops) :
        \A k \in 1..Len(cauldronStates) :
            (/\ ~recorded[t].stops[i].isMarket
             /\ cauldronStates[k].id = recorded[t].stops[i].cauldronId
             /\ Gt(cauldronStates[k].drainRate, cauldronStates[k].fillRate))
                => recorded[t].stops[i].drainTime
                       = Max2(Num(5), Div(recorded[t].stops[i].volumeCollected,
                                          Sub(cauldronStates[k].drainRate,
                                              cauldronStates[k].fillRate)))

-----------------------------------------------------------------------------
(* Planning runs for a cauldron reported above its maximum volume *)

\* readings of a cauldron of maximum volume 100 that has run over
OverfullLevels == {200, 2000}

\* the market, then A, then B on one road; A is reported above its maximum
InitOverfull ==
    /\ network = <<Edge(MarketId, "A", 10), Edge("A", "B", 10)>>
    /\ \E f \in 0..MaxFillRate :
           cauldrons = <<[id |-> "A", maxVolume |-> Num(100), fillRate |-> Num(f)],
                         [id |-> "B", maxVolume |-> Num(100), fillRate |-> Num(0)]>>
    /\ \E la \in OverfullLevels, lb \in StartLevels(100) :
           levels = <<[cauldron_id |-> "A", level |-> Num(la)],
                      [cauldron_id |-> "B", level |-> Num(lb)]>>
    /\ couriers \in {<<>>} \cup {<<[max_carrying_capacity |-> Num(c)]>> : c \in {10, 200}}
    /\ allLevels = <<>>
    /\ pc = "start"
    /\ adjacency = null /\ drainRates = null /\ cauldronStates = null
    /\ reachableCauldrons = null /\ maxCycleTime = null /\ unvisited = null
    /\ visitCount = null /\ courierCapacity = null /\ routes = null
    /\ witchIndex = 0 /\ totalTrips = 0 /\ trip = null
    /\ verification = null /\ result = null
    /\ travelTimes = null /\ shortestPaths = null

SpecOverfull == InitOverfull /\ [][Next]_vars

\* the number of stops at a cauldron in the recorded trips and in the trip
\* being built
StopsAt(id) ==
    LET RECURSIVE Count(_, _)
        Count(trips, t) ==
            IF t > Len(trips) THEN 0
            ELSE Cardinality({i \in 1..Len(trips[t].stops) :
                                 /\ ~trips[t].stops[i].isMarket
                                 /\ trips[t].stops[i].cauldronId = id})
                 + Count(trips, t + 1)
    IN  Count(RecordedTrips, 1)
        + (IF pc \in {"build", "return"}
           THEN Cardinality({i \in 1..Len(trip.route.stops) :
                                trip.route.stops[i].cauldronId = id})
           ELSE 0)

-----------------------------------------------------------------------------
(* Properties of the scheduling loop for a pool that fits under the ceiling *)

\* the courier carries at least 10 and at most 20 cauldrons are reachable
\* from the market
SmallPool ==
    /\ reachableCauldrons # null
    /\ courierCapacity # null
    /\ Ge(courierCapacity, Num(MinVolume))
    /\ Len(reachableCauldrons) <= MaxTotalTrips \div VisitLimit

\* C30: with a courier capacity of at least 10 and at most 20 cauldrons
\* reachable from the market, every trip built has at least one stop, the
\* loop ends with an empty pool, and the result reports no cauldron left
\* (stats.unreachableCauldrons = 0)
C30_SmallPoolCovered ==
    /\ <>(pc = "done")
    /\ [](SmallPool =>
             /\ pc = "return" => Len(trip.route.stops) >= 1
             /\ \E recorded \in {RecordedTrips} :
                    \A t \in 1..Len(recorded) : Len(CauldronStops(recorded[t])) >= 1
             /\ pc = "finish" => Len(unvisited) = 0
             /\ (pc = "done" /\ result # null) =>
                    /\ result.stats.unreachableCauldrons = 0
                    /\ result.stats.cauldronsCovered = Len(reachableCauldrons))

\* a run over 20 cauldrons has returned after 200 trips with all 20 covered
C30_TwentyCovered ==
    /\ pc = "done"
    /\ result # null
    /\ SmallPool
    /\ Len(reachableCauldrons) = MaxTotalTrips \div VisitLimit
    /\ totalTrips = MaxTotalTrips
    /\ result.stats.unreachableCauldrons = 0

====
